---- MODULE Spec2Model ----
(***************************************************************************)
(* Balance / transaction coordination of the Store bot:                    *)
(*   ext/constants.py        Balance value type                            *)
(*   ext/balance_manager.py  BalanceManagerService                         *)
(*   ext/trx.py              TransactionManager                            *)
(*   ext/product_manager.py  ProductManagerService.get_product             *)
(*   ext/cache_manager.py    CacheManager (in-process tier)                *)
(* Every coroutine is a task.  A task is suspended only in acquire_lock:   *)
(* the store calls are synchronous, and the notification callbacks         *)
(* (callback_manager.trigger) touch none of the state below.  One step of  *)
(* a task runs from one suspension to the next, or to the body the task    *)
(* just took a lock for.                                                   *)
(***************************************************************************)
EXTENDS Integers, Sequences, FiniteSets, TLC

----------------------------------------------------------------------------
(* Bounds and input sets                                                   *)

\* at most this many ledger rows are written in one run
MaxLedger == 2

Tasks == {"t1", "t2"}
\* the button callbacks of the shop view running at once, and the ids of
\* the interactions they are called for
Callbacks == {"c1", "c2"}
InteractionIds == {"i1", "i2"}
Handles == {"H1"}
\* "AB" is shorter than the 3 characters register_user asks for
GrowIds == {"AB", "ALICE"}
Accounts == {"ALICE"}
ProductCodes == {"P1"}
Quantities == {0, 1, 3}

\* (wl, dl, bgl) deltas handed to update_balance by its direct callers
Deltas == { <<150, 0, 0>>, <<0, 0, 100>>, <<-200, 0, 100>> }

\* (wl, dl, bgl) amounts handed to process_deposit / process_withdrawal
Amounts == { <<150, 0, 0>>, <<0, 1, 0>>, <<0, 0, 0>>, <<-1, 0, 0>> }

----------------------------------------------------------------------------
(* constants.py: Balance                                                   *)

MAX_AMOUNT == 1000000
MIN_AMOUNT == 0

Max(a, b) == IF a >= b THEN a ELSE b
Abs(a) == IF a < 0 THEN 0 - a ELSE a

\* Balance.__init__: negative inputs are clamped to zero
Balance(wl, dl, bgl) ==
    [wl |-> Max(0, wl), dl |-> Max(0, dl), bgl |-> Max(0, bgl)]

total_wl(b) == b.wl + (b.dl * 100) + (b.bgl * 10000)

\* a decomposition that takes the DL tier from the whole total
from_wl_no_remainder(n) == Balance(n % 100, n \div 100, n \div 10000)
\* Balance.from_wl: bgl = total // 10000, dl = (total % 10000) // 100,
\* wl = (total % 10000) % 100
from_wl(n) ==
    LET bgl == n \div 10000
        remaining == n % 10000
    IN  Balance(remaining % 100, remaining \div 100, bgl)

\* a range check that has lost its upper limit
validate_unbounded(b) == MIN_AMOUNT <= total_wl(b)
\* Balance.validate
validate(b) == MIN_AMOUNT <= total_wl(b) /\ total_wl(b) <= MAX_AMOUNT

\* Balance.format: the non-zero tiers, BGL first; "0 WL" when all are zero.
\* A part <<n, unit>> stands for the text "n unit".
format(b) ==
    LET bglPart == IF b.bgl > 0 THEN << <<b.bgl, "BGL">> >> ELSE << >>
        dlPart  == IF b.dl > 0 THEN << <<b.dl, "DL">> >> ELSE << >>
        parts   == bglPart \o dlPart
    IN  IF b.wl > 0 \/ parts = << >>
        THEN parts \o << <<b.wl, "WL">> >>
        ELSE parts

----------------------------------------------------------------------------
(* constants.py: MESSAGES.ERROR keys, TransactionType and Status values    *)

INSUFFICIENT_BALANCE == "INSUFFICIENT_BALANCE"
INVALID_AMOUNT == "INVALID_AMOUNT"
TRANSACTION_FAILED == "TRANSACTION_FAILED"
REGISTRATION_FAILED == "REGISTRATION_FAILED"
NOT_REGISTERED == "NOT_REGISTERED"
BALANCE_NOT_FOUND == "BALANCE_NOT_FOUND"
INVALID_GROWID == "INVALID_GROWID"
INSUFFICIENT_STOCK == "INSUFFICIENT_STOCK"
LOCK_ACQUISITION_FAILED == "LOCK_ACQUISITION_FAILED"
DATABASE_ERROR == "DATABASE_ERROR"
BALANCE_FAILED == "BALANCE_FAILED"
NO_HISTORY == "NO_HISTORY"
PRODUCT_NOT_FOUND == "PRODUCT_NOT_FOUND"
\* str(e) of the TypeError of ProductResponse >= int
TYPE_ERROR == "'>=' not supported between instances of 'ProductResponse' and 'int'"
\* str(e) of the KeyError of MESSAGES.ERROR['STOCK_NOT_FOUND']
KEY_ERROR == "'STOCK_NOT_FOUND'"
INVALID_STATUS == "Invalid status"
\* str(e) of the store exception a TransactionError carries
ATTRIBUTE_ERROR == "type object 'Stock' has no attribute 'MIN_PRICE'"
STORE_ERROR == "TransactionError"

PURCHASE == "purchase"
DEPOSIT == "deposit"
WITHDRAWAL == "withdrawal"
ADMIN_ADD == "admin_add"

AVAILABLE == "available"
SOLD == "sold"
DELETED == "deleted"
StatusValues == {AVAILABLE, SOLD, DELETED}

\* Stock.MAX_ITEMS
MAX_ITEMS == 1000

----------------------------------------------------------------------------
(* State                                                                   *)

VARIABLES
    users,          \* store table users: growid -> Balance (the rows that exist)
    user_growid,    \* store table user_growid: discord_id -> growid
    transactions,   \* store table transactions (the ledger), oldest first
    products,       \* store table products: code -> row
    stock,          \* store table stock: id -> row
    memory_cache,   \* CacheManager.memory_cache: key -> value (unexpired entries)
    cache_table,    \* store table cache_table: key -> [value, expires_at]; original
                    \* is the value the row was written for (history, not a column)
    locks,          \* BaseLockHandler lock table: held key -> holder
    task,           \* the coroutines in flight
    latest,         \* history: key -> the value of the last set of the key that
                    \* no delete or clear has followed (cache manager only)
    interaction_locks,  \* ShopView._interaction_locks: interaction id -> Lock
    asyncio_locks,      \* the asyncio.Lock objects alive: Lock -> locked()
    last_cleanup,       \* 1 when ShopView._last_cleanup is more than 300 s ago
    callback            \* the ShopView button callbacks in flight

vars ==
    <<users, user_growid, transactions, products, stock, memory_cache, cache_table,
      locks, task, latest, interaction_locks, asyncio_locks, last_cleanup, callback>>
\* the state of the shop view
view == <<interaction_locks, asyncio_locks, last_cleanup, callback>>
\* what the services never touch
aside == <<latest, view>>
store == <<users, user_growid, transactions, products, stock, cache_table>>

ZeroBalance == Balance(0, 0, 0)

NoResult == [ok |-> FALSE, err |-> "", data |-> ZeroBalance]
Success(b) == [ok |-> TRUE, err |-> "", data |-> b]
Error(e) == [ok |-> FALSE, err |-> e, data |-> ZeroBalance]

\* a cached value as the cache manager sees it: its Python type and its
\* content; NoValue is the default None that get answers for an absent key
NoValue == [type |-> "none", body |-> << >>]

\* one coroutine: the operation it was started for, the frames still to run
\* (innermost first), the arguments and locals, and the last response
IdleTask ==
    [op |-> "", stack |-> << >>, h |-> "", amt |-> <<0, 0, 0>>, code |-> "",
     q |-> 0, g |-> "", d |-> <<0, 0, 0>>, kind |-> "", cur |-> ZeroBalance,
     wrote |-> FALSE, limit |-> 0, id |-> 0, status |-> "", notified |-> << >>,
     failed |-> {}, count |-> 0, units |-> << >>, buyer |-> "",
     key |-> << >>, value |-> NoValue, found |-> {},
     permanent |-> FALSE, res |-> NoResult]

\* the response of a finished operation has not been taken by the caller yet
Returned(t) == task[t].stack = << >> /\ task[t].op # ""
\* a response is handed to the caller as soon as the operation has finished:
\* no task starts or continues while one is waiting to be taken
NoneReturned == \A t \in DOMAIN task : ~Returned(t)
\* the task can start an operation
Idle(t) == task[t].stack = << >> /\ NoneReturned
\* the task is inside an operation
Running(t) == task[t].stack # << >> /\ NoneReturned

\* the cache and lock keys the services build with f-strings
Key(prefix, name) == <<prefix, name>>

CacheHit(cache, key) == key \in DOMAIN cache
CacheSet(cache, key, value) ==
    [k \in (DOMAIN cache) \cup {key} |-> IF k = key THEN value ELSE cache[k]]
CacheDelete(cache, key) == [k \in (DOMAIN cache) \ {key} |-> cache[k]]

Init ==
    /\ users = << >>
    /\ user_growid = << >>
    /\ transactions = << >>
    /\ products = [c \in {"P1"} |-> [code |-> "P1", name |-> "P1", price |-> 100]]
    /\ stock = [i \in {1, 2} |->
                   [product_code |-> "P1", content |-> i, status |-> AVAILABLE,
                    buyer_id |-> ""]]
    /\ memory_cache = << >>
    /\ cache_table = << >>
    /\ locks = << >>
    /\ task = [t \in Tasks |-> IdleTask]
    /\ latest = << >>
    /\ interaction_locks = << >>
    /\ asyncio_locks = << >>
    /\ last_cleanup = 0
    /\ callback = [c \in Callbacks |-> [pc |-> "idle", id |-> "", lock |-> 0]]


----------------------------------------------------------------------------
(* base_handler.py: BaseLockHandler (one mutex per key)                    *)

\* the frames in which a task waits in acquire_lock
LockLabels ==
    {"ru_lock", "gg_lock", "gb_lock", "ub_lock", "pd_lock", "pw_lock", "pp_lock",
     "gp_lock", "as_lock", "gc_lock", "ga_lock", "us_lock"}

\* the same keys, except that update_balance keys its lock by the
\* transaction type instead of the account
LockKey_per_kind(tk) ==
    CASE Head(tk.stack) = "ru_lock" -> Key("register", tk.h)
      [] Head(tk.stack) = "gg_lock" -> Key("growid", tk.h)
      [] Head(tk.stack) = "gb_lock" -> Key("balance", tk.g)
      [] Head(tk.stack) = "ub_lock" -> Key("balance_update", tk.kind)
      [] Head(tk.stack) = "pd_lock" -> Key("deposit", tk.h)
      [] Head(tk.stack) = "pw_lock" -> Key("withdrawal", tk.h)
      [] Head(tk.stack) = "pp_lock" -> Key("purchase", <<tk.h, tk.code>>)
      [] Head(tk.stack) = "gp_lock" -> Key("product_get", tk.code)
      [] Head(tk.stack) = "as_lock" -> Key("stock_add", tk.code)
      [] Head(tk.stack) = "gc_lock" -> Key("stock_count", tk.code)
      [] Head(tk.stack) = "ga_lock" -> Key("stock_get", tk.code)
      [] Head(tk.stack) = "us_lock" -> Key("stock_update", tk.id)
\* the same keys, except that get_balance takes the key of update_balance
LockKey_balance_shared(tk) ==
    CASE Head(tk.stack) = "ru_lock" -> Key("register", tk.h)
      [] Head(tk.stack) = "gg_lock" -> Key("growid", tk.h)
      [] Head(tk.stack) = "gb_lock" -> Key("balance_update", tk.g)
      [] Head(tk.stack) = "ub_lock" -> Key("balance_update", tk.g)
      [] Head(tk.stack) = "pd_lock" -> Key("deposit", tk.h)
      [] Head(tk.stack) = "pw_lock" -> Key("withdrawal", tk.h)
      [] Head(tk.stack) = "pp_lock" -> Key("purchase", <<tk.h, tk.code>>)
      [] Head(tk.stack) = "gp_lock" -> Key("product_get", tk.code)
      [] Head(tk.stack) = "as_lock" -> Key("stock_add", tk.code)
      [] Head(tk.stack) = "gc_lock" -> Key("stock_count", tk.code)
      [] Head(tk.stack) = "ga_lock" -> Key("stock_get", tk.code)
      [] Head(tk.stack) = "us_lock" -> Key("stock_update", tk.id)
\* the key each operation passes to acquire_lock and to release_lock
LockKey(tk) ==
    CASE Head(tk.stack) = "ru_lock" -> Key("register", tk.h)
      [] Head(tk.stack) = "gg_lock" -> Key("growid", tk.h)
      [] Head(tk.stack) = "gb_lock" -> Key("balance", tk.g)
      [] Head(tk.stack) = "ub_lock" -> Key("balance_update", tk.g)
      [] Head(tk.stack) = "pd_lock" -> Key("deposit", tk.h)
      [] Head(tk.stack) = "pw_lock" -> Key("withdrawal", tk.h)
      [] Head(tk.stack) = "pp_lock" -> Key("purchase", <<tk.h, tk.code>>)
      [] Head(tk.stack) = "gp_lock" -> Key("product_get", tk.code)
      [] Head(tk.stack) = "as_lock" -> Key("stock_add", tk.code)
      [] Head(tk.stack) = "gc_lock" -> Key("stock_count", tk.code)
      [] Head(tk.stack) = "ga_lock" -> Key("stock_get", tk.code)
      [] Head(tk.stack) = "us_lock" -> Key("stock_update", tk.id)

\* the frames an operation runs once it holds its lock
AfterLock(label) ==
    CASE label = "ru_lock" -> <<"ru_body">>
      [] label = "gg_lock" -> <<"gg_body">>
      [] label = "gb_lock" -> <<"gb_body">>
      [] label = "ub_lock" -> <<"gb_check", "ub_body">>
      [] label = "pd_lock" -> <<"gg_check", "pd_growid">>
      [] label = "pw_lock" -> <<"gg_check", "pw_growid">>
      [] label = "pp_lock" -> <<"gg_check", "pp_growid">>
      [] label = "gp_lock" -> <<"gp_body">>
      [] label = "as_lock" -> <<"as_product">>
      [] label = "gc_lock" -> <<"gc_body">>
      [] label = "ga_lock" -> <<"ga_body">>
      [] label = "us_lock" -> <<"us_body">>

\* what the operation returns when acquire_lock reports failure
\* (get_product returns None, the stock operations TRANSACTION_FAILED, every
\* other operation LOCK_ACQUISITION_FAILED)
LockFailure(label) ==
    IF label = "gp_lock" THEN Error("None")
    ELSE IF label \in {"as_lock", "gc_lock", "ga_lock", "us_lock"}
    THEN Error(TRANSACTION_FAILED)
    ELSE Error(LOCK_ACQUISITION_FAILED)

Held(lk, key) == key \in DOMAIN lk
Lock(lk, key, t) == [k \in (DOMAIN lk) \cup {key} |-> IF k = key THEN t ELSE lk[k]]
release_lock(lk, key) == [k \in (DOMAIN lk) \ {key} |-> lk[k]]

\* the frame on top returns r to the frame below it
Return(tk, r) == [tk EXCEPT !.stack = Tail(@), !.res = r]
\* the frame on top is replaced by the frames fs
Goto(tk, fs) == [tk EXCEPT !.stack = fs \o Tail(@)]

----------------------------------------------------------------------------
(* The code an operation runs between two suspensions.  A coroutine is     *)
(* suspended only in acquire_lock: the cache lookups and the checks below  *)
(* run in the same turn of the event loop as the step before them.  Each   *)
(* takes and returns m = [tk |-> the task, lk |-> the lock registry].      *)

\* get_growid: the cache lookup of growid_<discord_id>
get_growid_cached(tk, cache) ==
    IF CacheHit(cache, Key("growid", tk.h))
    THEN [Return(tk, Success(ZeroBalance)) EXCEPT !.g = cache[Key("growid", tk.h)]]
    ELSE Goto(tk, <<"gg_lock">>)

\* get_balance: the cache lookup of balance_<growid>
get_balance_cached(tk, cache) ==
    IF CacheHit(cache, Key("balance", tk.g))
    THEN Return(tk, Success(cache[Key("balance", tk.g)]))
    ELSE Goto(tk, <<"gb_lock">>)

\* get_product: the cache lookup of product_<code>
get_product_cached(tk, cache) ==
    IF CacheHit(cache, Key("product", tk.code))
    THEN Return(tk, Success(ZeroBalance))
    ELSE Goto(tk, <<"gp_lock">>)

AmountTotal(amt) == amt[1] + (amt[2] * 100) + (amt[3] * 10000)
HasNegative(amt) == amt[1] < 0 \/ amt[2] < 0 \/ amt[3] < 0

\* the operation returns r and its finally block releases the lock key
Finish(m, r, key) == [tk |-> Return(m.tk, r), lk |-> release_lock(m.lk, key)]

\* a deposit that calls update_balance whatever the total is
process_deposit_any_total(m) ==
    LET tk == m.tk
    IN  IF ~tk.res.ok THEN Finish(m, Error(tk.res.err), Key("deposit", tk.h))
        ELSE [m EXCEPT !.tk = [Goto(tk, <<"ub_lock", "pd_done">>) EXCEPT
                                  !.d = tk.amt, !.kind = DEPOSIT]]
\* process_deposit after get_growid returned: the total is checked and
\* update_balance is called
process_deposit(m) ==
    LET tk == m.tk
    IN  IF ~tk.res.ok THEN Finish(m, Error(tk.res.err), Key("deposit", tk.h))
        ELSE IF AmountTotal(tk.amt) <= 0
        THEN Finish(m, Error(INVALID_AMOUNT), Key("deposit", tk.h))
        ELSE [m EXCEPT !.tk = [Goto(tk, <<"ub_lock", "pd_done">>) EXCEPT
                                  !.d = tk.amt, !.kind = DEPOSIT]]

\* a deposit that calls update_balance again when it failed
process_deposit_done_retry(m) ==
    LET tk == m.tk
    IN  IF tk.res.ok THEN Finish(m, Success(tk.res.data), Key("deposit", tk.h))
        ELSE [m EXCEPT !.tk = [Goto(tk, <<"ub_lock", "pd_done">>) EXCEPT
                                  !.res = NoResult]]
\* process_deposit after update_balance returned: its response becomes the
\* response of the deposit
process_deposit_done(m) ==
    LET tk == m.tk
    IN  Finish(m, IF tk.res.ok THEN Success(tk.res.data) ELSE Error(tk.res.err),
               Key("deposit", tk.h))

\* process_withdrawal after get_growid returned: get_balance is called
process_withdrawal(m) ==
    LET tk == m.tk
    IN  IF ~tk.res.ok THEN Finish(m, Error(tk.res.err), Key("withdrawal", tk.h))
        ELSE [m EXCEPT !.tk = Goto(tk, <<"gb_check", "pw_check">>)]

\* a withdrawal that leaves the comparison with the balance to update_balance
process_withdrawal_check_no_precheck(m) ==
    LET tk == m.tk
        key == Key("withdrawal", tk.h)
    IN  IF ~tk.res.ok THEN Finish(m, Error(tk.res.err), key)
        ELSE IF AmountTotal(tk.amt) <= 0 THEN Finish(m, Error(INVALID_AMOUNT), key)
        ELSE [m EXCEPT !.tk =
                 [Goto(tk, <<"ub_lock", "pw_done">>) EXCEPT
                     !.d = <<0 - tk.amt[1], 0 - tk.amt[2], 0 - tk.amt[3]>>,
                     !.kind = WITHDRAWAL]]
\* process_withdrawal after get_balance returned: the total is checked against
\* the balance total and update_balance is called with the negated amounts
process_withdrawal_check(m) ==
    LET tk == m.tk
        current_balance == tk.res.data
        key == Key("withdrawal", tk.h)
    IN  IF ~tk.res.ok THEN Finish(m, Error(tk.res.err), key)
        ELSE IF AmountTotal(tk.amt) <= 0 THEN Finish(m, Error(INVALID_AMOUNT), key)
        ELSE IF AmountTotal(tk.amt) > total_wl(current_balance)
        THEN Finish([m EXCEPT !.tk.cur = current_balance],
                    Error(INSUFFICIENT_BALANCE), key)
        ELSE [m EXCEPT !.tk =
                 [Goto(tk, <<"ub_lock", "pw_done">>) EXCEPT
                     !.d = <<0 - tk.amt[1], 0 - tk.amt[2], 0 - tk.amt[3]>>,
                     !.kind = WITHDRAWAL]]

\* process_withdrawal after update_balance returned
process_withdrawal_done(m) ==
    LET tk == m.tk
    IN  Finish(m, IF tk.res.ok THEN Success(tk.res.data) ELSE Error(tk.res.err),
               Key("withdrawal", tk.h))

\* process_purchase after get_growid returned: get_product is called
process_purchase(m) ==
    LET tk == m.tk
    IN  IF ~tk.res.ok
        THEN Finish(m, Error(tk.res.err), Key("purchase", <<tk.h, tk.code>>))
        ELSE [m EXCEPT !.tk = Goto(tk, <<"gp_check", "pp_product">>)]

\* a purchase that takes the price from the buyer's account right after the
\* product lookup and succeeds, with no unit marked SOLD
process_purchase_product_charges(m) ==
    LET tk == m.tk
    IN  IF tk.kind = ""
        THEN [m EXCEPT !.tk = [Goto(tk, <<"ub_lock", "pp_product">>) EXCEPT
                                  !.g = user_growid[tk.h],
                                  !.d = <<0 - products[tk.code].price, 0, 0>>,
                                  !.kind = PURCHASE]]
        ELSE Finish(m, tk.res, Key("purchase", <<tk.h, tk.code>>))
\* a purchase that marks unit 1 SOLD for its buyer right after the product
\* lookup, whatever the state of the unit is, and succeeds
process_purchase_product_sells(m) ==
    LET tk == m.tk
    IN  IF tk.status = ""
        THEN [m EXCEPT !.tk = [Goto(tk, <<"us_lock", "pp_product">>) EXCEPT
                                  !.id = 1, !.status = SOLD, !.buyer = tk.h]]
        ELSE Finish(m, tk.res, Key("purchase", <<tk.h, tk.code>>))
\* a purchase that debits the buyer right after the product lookup, with no
\* unit reserved
process_purchase_product_debit(m) ==
    LET tk == m.tk
    IN  IF tk.kind = ""
        THEN [m EXCEPT !.tk = [Goto(tk, <<"ub_lock", "pp_product">>) EXCEPT
                                  !.g = tk.res.data, !.d = <<0 - tk.q, 0, 0>>,
                                  !.kind = PURCHASE]]
        ELSE Finish(m, tk.res, Key("purchase", <<tk.h, tk.code>>))
\* process_purchase after get_product returned a dict or None: it reads the
\* attribute .success of it (trx.py:201), which neither has.  The
\* AttributeError is caught by the handler at trx.py:293 and TRANSACTION_FAILED
\* is returned.  The steps after trx.py:201 (stock fetch, balance check,
\* update_stock_status, update_balance, compensating rollback) are never
\* reached.
process_purchase_product(m) ==
    Finish(m, Error(TRANSACTION_FAILED), Key("purchase", <<m.tk.h, m.tk.code>>))

\* get_stock_count: the cache lookup of stock_count_<code> (is not None)
get_stock_count_cached(tk, cache) ==
    IF CacheHit(cache, Key("stock_count", tk.code))
    THEN [Return(tk, Success(ZeroBalance)) EXCEPT
             !.count = cache[Key("stock_count", tk.code)]]
    ELSE Goto(tk, <<"gc_lock">>)

\* get_available_stock: the cache lookup of stock_<code>_q<quantity>; an
\* empty list is cached but not served (if cached:)
get_available_stock_cached(tk, cache) ==
    IF /\ CacheHit(cache, Key("stock_q", <<tk.code, tk.q>>))
       /\ cache[Key("stock_q", <<tk.code, tk.q>>)] # << >>
    THEN [Return(tk, Success(ZeroBalance)) EXCEPT
             !.units = cache[Key("stock_q", <<tk.code, tk.q>>)]]
    ELSE Goto(tk, <<"ga_lock">>)

\* add_stock_item under its lock: the product row is looked up and
\* get_stock_count is called
add_stock_item(m) ==
    LET tk == m.tk
    IN  IF tk.code \notin DOMAIN products
        THEN Finish(m, Error(PRODUCT_NOT_FOUND), Key("stock_add", tk.code))
        ELSE [m EXCEPT !.tk = Goto(tk, <<"gc_check", "as_count">>)]

\* add_stock_item after get_stock_count returned: the ProductResponse is
\* compared with Stock.MAX_STOCK, which raises TypeError; the except clause
\* rolls back and returns str(e).  The INSERT is never reached.
add_stock_item_count(m) ==
    Finish(m, Error(TYPE_ERROR), Key("stock_add", m.tk.code))

\* update_stock_status after get_product returned: the callbacks are
\* triggered and success is returned
update_stock_status_done(m) ==
    Finish(m, Success(ZeroBalance), Key("stock_update", m.tk.id))

\* the task runs until it is suspended in acquire_lock, starts the body it
\* took a lock for, or has returned to its caller
RECURSIVE Run(_, _)
Run(m, cache) ==
    IF m.tk.stack = << >> THEN m
    ELSE CASE Head(m.tk.stack) = "gg_check" ->
                  Run([m EXCEPT !.tk = get_growid_cached(@, cache)], cache)
           [] Head(m.tk.stack) = "gb_check" ->
                  Run([m EXCEPT !.tk = get_balance_cached(@, cache)], cache)
           [] Head(m.tk.stack) = "gp_check" ->
                  Run([m EXCEPT !.tk = get_product_cached(@, cache)], cache)
           [] Head(m.tk.stack) = "pd_growid" -> Run(process_deposit(m), cache)
           [] Head(m.tk.stack) = "pd_done" -> Run(process_deposit_done(m), cache)
           [] Head(m.tk.stack) = "pw_growid" -> Run(process_withdrawal(m), cache)
           [] Head(m.tk.stack) = "pw_check" -> Run(process_withdrawal_check(m), cache)
           [] Head(m.tk.stack) = "pw_done" -> Run(process_withdrawal_done(m), cache)
           [] Head(m.tk.stack) = "pp_growid" -> Run(process_purchase(m), cache)
           [] Head(m.tk.stack) = "pp_product" -> Run(process_purchase_product(m), cache)
           [] Head(m.tk.stack) = "gc_check" ->
                  Run([m EXCEPT !.tk = get_stock_count_cached(@, cache)], cache)
           [] Head(m.tk.stack) = "ga_check" ->
                  Run([m EXCEPT !.tk = get_available_stock_cached(@, cache)], cache)
           [] Head(m.tk.stack) = "as_product" -> Run(add_stock_item(m), cache)
           [] Head(m.tk.stack) = "as_count" -> Run(add_stock_item_count(m), cache)
           [] Head(m.tk.stack) = "us_done" -> Run(update_stock_status_done(m), cache)
           [] OTHER -> m

\* the step of task t ends with task record tk, lock registry lk and cache
Resume(t, tk, lk, cache) ==
    LET m == Run([tk |-> tk, lk |-> lk], cache)
    IN  /\ task' = [task EXCEPT ![t] = m.tk]
        /\ locks' = m.lk
        /\ memory_cache' = cache

----------------------------------------------------------------------------
(* base_handler.py: acquire_lock                                           *)

\* acquire_lock succeeds: the key is free and the task takes it
acquire_lock(t) ==
    /\ Running(t)
    /\ Head(task[t].stack) \in LockLabels
    /\ ~Held(locks, LockKey(task[t]))
    /\ Resume(t, Goto(task[t], AfterLock(Head(task[t].stack))),
              Lock(locks, LockKey(task[t]), t), memory_cache)
    /\ UNCHANGED <<store, aside>>

\* acquire_lock times out while another task holds the key: the operation
\* returns its failure response without having entered its try block
acquire_timeout(t) ==
    /\ Running(t)
    /\ Head(task[t].stack) \in LockLabels
    /\ Held(locks, LockKey(task[t]))
    /\ Resume(t, Return(task[t], LockFailure(Head(task[t].stack))), locks,
              memory_cache)
    /\ UNCHANGED <<store, aside>>

----------------------------------------------------------------------------
(* cache_manager.py: an entry whose expires_at has passed is dropped       *)

Expire(key) ==
    /\ NoneReturned
    /\ key \in DOMAIN memory_cache
    /\ memory_cache' = CacheDelete(memory_cache, key)
    /\ UNCHANGED <<store, locks, task, aside>>

----------------------------------------------------------------------------
(* balance_manager.py: BalanceCallbackManager                              *)

\* the callbacks registered for an event, in the order of registration
Subscribers(event) ==
    CASE event = "balance_updated" ->
             <<"notify_balance_updated", "notify_large_transaction">>
      [] event = "user_registered" -> <<"notify_user_registered">>
      [] OTHER -> << >>

\* the sets of callbacks that raise when they are invoked
FailingSets ==
    SUBSET {"notify_balance_updated", "notify_large_transaction",
            "notify_user_registered"}

Range(seq) == {seq[i] : i \in 1..Len(seq)}

\* a trigger without the try/except around each callback: the first callback
\* that raises ends the loop and the exception reaches the caller
trigger_unguarded(event, failing) ==
    LET subs == Subscribers(event)
        bad == {i \in 1..Len(subs) : subs[i] \in failing}
        first == IF bad = {} THEN Len(subs)
                 ELSE CHOOSE i \in bad : \A j \in bad : i <= j
    IN  [invoked |-> SubSeq(subs, 1, first), raised |-> bad # {}]
\* trigger: every callback of the event is awaited in turn; an exception of
\* a callback is logged and the loop goes on
trigger(event, failing) ==
    [invoked |-> Subscribers(event), raised |-> FALSE]

\* the two triggers of update_balance, one after the other
trigger_update(failing) ==
    LET first == trigger("balance_updated", failing)
        second == trigger("transaction_added", failing)
    IN  IF first.raised THEN first
        ELSE [invoked |-> first.invoked \o second.invoked,
              raised |-> second.raised]

\* what str(e) gives for the exception of a callback
CALLBACK_ERROR == "callback raised"

----------------------------------------------------------------------------
(* balance_manager.py: register_user                                       *)

\* INSERT OR REPLACE INTO users: an existing row is overwritten with zeros
InsertOrReplaceUser(tbl, g) ==
    [k \in (DOMAIN tbl) \cup {g} |-> IF k = g THEN ZeroBalance ELSE tbl[k]]
\* INSERT OR IGNORE INTO users
InsertOrIgnoreUser(tbl, g) ==
    IF g \in DOMAIN tbl THEN tbl
    ELSE [k \in (DOMAIN tbl) \cup {g} |-> IF k = g THEN ZeroBalance ELSE tbl[k]]

\* INSERT OR REPLACE INTO user_growid with discord_id the only unique column
InsertOrReplaceLink_handle_only(tbl, h, g) ==
    [k \in (DOMAIN tbl) \cup {h} |-> IF k = h THEN g ELSE tbl[k]]
\* INSERT OR REPLACE INTO user_growid, discord_id and growid each unique:
\* the rows in conflict on either column are replaced
InsertOrReplaceLink(tbl, h, g) ==
    LET kept == {k \in DOMAIN tbl : k # h /\ tbl[k] # g}
    IN  [k \in kept \cup {h} |-> IF k = h THEN g ELSE tbl[k]]

CallRegisterUser(t, h, g) ==
    /\ Idle(t)
    /\ task' = [task EXCEPT ![t] =
           IF Len(g) < 3
           THEN [IdleTask EXCEPT !.op = "register_user", !.h = h, !.g = g,
                                 !.res = Error(INVALID_GROWID)]
           ELSE [IdleTask EXCEPT !.op = "register_user", !.h = h, !.g = g,
                                 !.stack = <<"ru_lock">>]]
    /\ UNCHANGED <<store, memory_cache, locks, aside>>

register_user(t) ==
    LET tk == task[t]
        \* SELECT growid FROM users WHERE growid = ?
        existing == IF tk.g \in DOMAIN users THEN tk.g ELSE ""
    IN  /\ Running(t)
        /\ Head(tk.stack) = "ru_body"
        /\ IF existing # "" /\ existing # tk.g
           THEN /\ task' = [task EXCEPT ![t] = Return(@, Error("GROWID_EXISTS"))]
                /\ UNCHANGED <<store, memory_cache, aside>>
           ELSE /\ users' = InsertOrIgnoreUser(users, tk.g)
                /\ user_growid' = InsertOrReplaceLink(user_growid, tk.h, tk.g)
                /\ memory_cache' =
                       CacheDelete(
                           CacheSet(CacheSet(memory_cache, Key("growid", tk.h), tk.g),
                                    Key("discord_id", tk.g), tk.h),
                           Key("balance", tk.g))
                /\ \E failing \in FailingSets :
                       LET n == trigger("user_registered", failing)
                       IN  task' = [task EXCEPT ![t] =
                               [Return(@, IF n.raised
                                          THEN Error(REGISTRATION_FAILED)
                                          ELSE Success(ZeroBalance)) EXCEPT
                                   !.wrote =
                                       (InsertOrIgnoreUser(users, tk.g) # users
                                        \/ InsertOrReplaceLink(user_growid, tk.h, tk.g)
                                               # user_growid),
                                   !.notified = n.invoked,
                                   !.failed = failing \cap Range(n.invoked)]]
                /\ UNCHANGED <<transactions, products, stock, cache_table, aside>>
        /\ locks' = release_lock(locks, Key("register", tk.h))

----------------------------------------------------------------------------
(* balance_manager.py: get_growid                                          *)

CallGetGrowid(t, h) ==
    /\ Idle(t)
    /\ Resume(t, [IdleTask EXCEPT !.op = "get_growid", !.h = h,
                                  !.stack = <<"gg_check">>], locks, memory_cache)
    /\ UNCHANGED <<store, aside>>

\* store lookup under the lock growid_<discord_id>
get_growid(t) ==
    LET tk == task[t]
        key == Key("growid", tk.h)
    IN  /\ Running(t)
        /\ Head(tk.stack) = "gg_body"
        /\ IF tk.h \in DOMAIN user_growid
           THEN Resume(t, [Return(tk, Success(ZeroBalance)) EXCEPT
                              !.g = user_growid[tk.h]],
                       release_lock(locks, key),
                       CacheSet(memory_cache, key, user_growid[tk.h]))
           ELSE Resume(t, Return(tk, Error(NOT_REGISTERED)),
                       release_lock(locks, key), memory_cache)
        /\ UNCHANGED <<store, aside>>

----------------------------------------------------------------------------
(* balance_manager.py: get_balance                                         *)

CallGetBalance(t, g) ==
    /\ Idle(t)
    /\ Resume(t, [IdleTask EXCEPT !.op = "get_balance", !.g = g,
                                  !.stack = <<"gb_check">>], locks, memory_cache)
    /\ UNCHANGED <<store, aside>>

\* store read under the lock balance_<growid>, then the cache entry is set
get_balance(t) ==
    LET tk == task[t]
        key == Key("balance", tk.g)
        balance == Balance(users[tk.g].wl, users[tk.g].dl, users[tk.g].bgl)
    IN  /\ Running(t)
        /\ Head(tk.stack) = "gb_body"
        /\ IF tk.g \in DOMAIN users
           THEN Resume(t, Return(tk, Success(balance)), release_lock(locks, key),
                       CacheSet(memory_cache, key, balance))
           ELSE Resume(t, Return(tk, Error(BALANCE_NOT_FOUND)),
                       release_lock(locks, key), memory_cache)
        /\ UNCHANGED <<store, aside>>

----------------------------------------------------------------------------
(* balance_manager.py: update_balance                                      *)

\* the operations that end in an INSERT INTO transactions
LedgerWriters == {"update_balance", "process_deposit", "process_withdrawal"}

\* bound: an operation that may write the ledger starts only while a row is left
LedgerRoom ==
    Len(transactions) + Cardinality({t \in Tasks : task[t].stack # << >> /\ task[t].op \in LedgerWriters})
        < MaxLedger

CallUpdateBalance(t, g, d) ==
    /\ Idle(t)
    /\ LedgerRoom
    /\ task' = [task EXCEPT ![t] =
           [IdleTask EXCEPT !.op = "update_balance", !.g = g, !.d = d,
                            !.kind = ADMIN_ADD, !.stack = <<"ub_lock">>]]
    /\ UNCHANGED <<store, memory_cache, locks, aside>>

\* where the store transaction of update_balance can raise
Faults == {"none", "update", "insert", "commit"}

\* UPDATE users SET balance_wl = ?, balance_dl = ?, balance_bgl = ? WHERE growid = ?
UpdateUsers(tbl, g, wl, dl, bgl) ==
    [k \in DOMAIN tbl |-> IF k = g THEN [wl |-> wl, dl |-> dl, bgl |-> bgl] ELSE tbl[k]]

\* an INSERT that overwrites the newest row instead of adding one
InsertTransaction_replacing(tbl, g, kind, old, new) ==
    IF tbl = << >>
    THEN <<[growid |-> g, type |-> kind, old_balance |-> old, new_balance |-> new]>>
    ELSE [tbl EXCEPT ![Len(tbl)] =
             [growid |-> g, type |-> kind, old_balance |-> old, new_balance |-> new]]
\* INSERT INTO transactions (growid, type, old_balance, new_balance)
InsertTransaction(tbl, g, kind, old, new) ==
    Append(tbl, [growid |-> g, type |-> kind, old_balance |-> old, new_balance |-> new])

\* a rollback that leaves the statements already executed in place
Rollback_keeps(working, begun) == working
\* conn.rollback(): the tables are again as they were at BEGIN TRANSACTION
Rollback(working, begun) == begun

\* a per-tier guard that does not look at the WL tier
Overdraws_unguarded_wl(d, cur) ==
    \/ d[2] < 0 /\ Abs(d[2]) > cur.dl
    \/ d[3] < 0 /\ Abs(d[3]) > cur.bgl
\* the per-tier guard of update_balance (a withdrawal larger than the tier)
Overdraws(d, cur) ==
    \/ (d[1] < 0 /\ Abs(d[1]) > cur.wl)
    \/ (d[2] < 0 /\ Abs(d[2]) > cur.dl)
    \/ (d[3] < 0 /\ Abs(d[3]) > cur.bgl)

\* a new balance that applies the WL delta only
NewBalance_wl_only(cur, d) == Balance(Max(0, cur.wl + d[1]), cur.dl, cur.bgl)
\* new_wl, new_dl, new_bgl = max(0, current + delta), then Balance(...)
NewBalance(cur, d) ==
    Balance(Max(0, cur.wl + d[1]), Max(0, cur.dl + d[2]), Max(0, cur.bgl + d[3]))

\* the per-tier guard evaluated only after the transaction has been written
Decide_guard_after_write(cur, d, fault) ==
    IF ~validate(NewBalance(cur, d)) THEN [err |-> INVALID_AMOUNT, begin |-> FALSE]
    ELSE IF Overdraws(d, cur) THEN [err |-> INSUFFICIENT_BALANCE, begin |-> TRUE]
    ELSE IF fault # "none" THEN [err |-> STORE_ERROR, begin |-> TRUE]
    ELSE [err |-> "", begin |-> TRUE]
\* what update_balance answers, and whether it got as far as the store
\* transaction: the range check, then the per-tier guard, then the transaction
Decide(cur, d, fault) ==
    IF ~validate(NewBalance(cur, d)) THEN [err |-> INVALID_AMOUNT, begin |-> FALSE]
    ELSE IF Overdraws(d, cur) THEN [err |-> INSUFFICIENT_BALANCE, begin |-> FALSE]
    ELSE IF fault # "none" THEN [err |-> STORE_ERROR, begin |-> TRUE]
    ELSE [err |-> "", begin |-> TRUE]

\* a refresh that forgets to set the balance entry
RefreshCache_history_only(cache, g, new_balance) ==
    CacheDelete(cache, Key("trx_history", g))
\* after the commit: the balance entry is set, the history entry is deleted
RefreshCache(cache, g, new_balance) ==
    CacheDelete(CacheSet(cache, Key("balance", g), new_balance), Key("trx_history", g))

\* runs with the lock balance_update_<growid> held, after get_balance returned
update_balance(t, fault) ==
    LET tk == task[t]
        key == Key("balance_update", tk.g)
        current_balance == tk.res.data
        new_balance == NewBalance(current_balance, tk.d)
        decision == Decide(current_balance, tk.d, fault)
        begun == <<users, transactions>>
        updated == <<UpdateUsers(users, tk.g, new_balance.wl, new_balance.dl,
                                 new_balance.bgl), transactions>>
        inserted == <<updated[1],
                      InsertTransaction(transactions, tk.g, tk.kind,
                                        format(current_balance), format(new_balance))>>
        after == CASE ~decision.begin -> begun
                   [] decision.begin /\ fault = "none" -> inserted
                   [] decision.begin /\ fault = "update" -> Rollback(begun, begun)
                   [] decision.begin /\ fault = "insert" -> Rollback(updated, begun)
                   [] decision.begin /\ fault = "commit" -> Rollback(inserted, begun)
    IN  /\ Running(t)
        /\ Head(tk.stack) = "ub_body"
        /\ IF ~tk.res.ok
           THEN /\ Resume(t, Return(tk, tk.res), release_lock(locks, key),
                          memory_cache)
                /\ UNCHANGED <<store, aside>>
           ELSE /\ users' = after[1]
                /\ transactions' = after[2]
                /\ \E failing \in FailingSets :
                       LET n == IF decision.err = "" THEN trigger_update(failing)
                                ELSE [invoked |-> << >>, raised |-> FALSE]
                       IN  Resume(t, [Return(tk, IF decision.err # ""
                                                 THEN Error(decision.err)
                                                 ELSE IF n.raised
                                                 THEN Error(CALLBACK_ERROR)
                                                 ELSE Success(new_balance))
                                         EXCEPT !.cur = current_balance,
                                                !.wrote = (@ \/ after # begun),
                                                !.notified = n.invoked,
                                                !.failed = failing \cap Range(n.invoked)],
                                  release_lock(locks, key),
                                  IF decision.err = ""
                                  THEN RefreshCache(memory_cache, tk.g, new_balance)
                                  ELSE memory_cache)
                /\ UNCHANGED <<user_growid, products, stock, cache_table, aside>>

----------------------------------------------------------------------------
(* balance_manager.py: get_transaction_history                             *)

Reverse(rows) == [i \in 1..Len(rows) |-> rows[Len(rows) + 1 - i]]

\* SELECT * FROM transactions WHERE growid = ? ORDER BY created_at DESC
SelectTransactions(tbl, g) == Reverse(SelectSeq(tbl, LAMBDA r : r.growid = g))

\* the first rows returned by LIMIT ?, and cached[:limit]
Slice(rows, limit) == SubSeq(rows, 1, IF limit < Len(rows) THEN limit ELSE Len(rows))

\* takes no lock: the cache lookup, the query and the cache write run in one
\* turn.  A cached page that is not empty is returned cut to the limit.
get_transaction_history(t, g, limit) ==
    LET key == Key("trx_history", g)
        cached == IF CacheHit(memory_cache, key) THEN memory_cache[key] ELSE << >>
        page == Slice(SelectTransactions(transactions, g), limit)
        call == [IdleTask EXCEPT !.op = "get_transaction_history", !.g = g,
                                 !.limit = limit]
    IN  /\ Idle(t)
        /\ IF cached # << >>
           THEN /\ task' = [task EXCEPT ![t] =
                       [call EXCEPT !.res = Success(Slice(cached, limit))]]
                /\ UNCHANGED memory_cache
           ELSE /\ task' = [task EXCEPT ![t] =
                       [call EXCEPT !.res = IF page = << >> THEN Error(NO_HISTORY)
                                            ELSE Success(page)]]
                /\ memory_cache' = CacheSet(memory_cache, key, page)
        /\ UNCHANGED <<store, locks, aside>>

----------------------------------------------------------------------------
(* trx.py: process_deposit, process_withdrawal                             *)

CallProcessDeposit(t, h, amt) ==
    /\ Idle(t)
    /\ LedgerRoom
    /\ task' = [task EXCEPT ![t] =
           IF HasNegative(amt)
           THEN [IdleTask EXCEPT !.op = "process_deposit", !.h = h, !.amt = amt,
                                 !.res = Error(INVALID_AMOUNT)]
           ELSE [IdleTask EXCEPT !.op = "process_deposit", !.h = h, !.amt = amt,
                                 !.stack = <<"pd_lock">>]]
    /\ UNCHANGED <<store, memory_cache, locks, aside>>

CallProcessWithdrawal(t, h, amt) ==
    /\ Idle(t)
    /\ LedgerRoom
    /\ task' = [task EXCEPT ![t] =
           IF HasNegative(amt)
           THEN [IdleTask EXCEPT !.op = "process_withdrawal", !.h = h, !.amt = amt,
                                 !.res = Error(INVALID_AMOUNT)]
           ELSE [IdleTask EXCEPT !.op = "process_withdrawal", !.h = h, !.amt = amt,
                                 !.stack = <<"pw_lock">>]]
    /\ UNCHANGED <<store, memory_cache, locks, aside>>

----------------------------------------------------------------------------
(* product_manager.py: get_product (returns the product row or None)       *)

\* store lookup under the lock product_get_<code>
get_product(t) ==
    LET tk == task[t]
        key == Key("product_get", tk.code)
    IN  /\ Running(t)
        /\ Head(tk.stack) = "gp_body"
        /\ IF tk.code \in DOMAIN products
           THEN Resume(t, Return(tk, Success(ZeroBalance)), release_lock(locks, key),
                       CacheSet(memory_cache, Key("product", tk.code),
                                products[tk.code]))
           ELSE Resume(t, Return(tk, Error("None")), release_lock(locks, key),
                       memory_cache)
        /\ UNCHANGED <<store, aside>>

CallGetProduct(t, code) ==
    /\ Idle(t)
    /\ Resume(t, [IdleTask EXCEPT !.op = "get_product", !.code = code,
                                  !.stack = <<"gp_check">>], locks, memory_cache)
    /\ UNCHANGED <<store, aside>>

\* create_product: the price check reads Stock.MIN_PRICE, an attribute that
\* class Stock does not have (MIN_PRICE belongs to PRODUCT_CONSTANTS); the
\* AttributeError leaves the call before acquire_lock and outside its try
\* block, so the lock product_create_<code> is never taken
create_product(t, code) ==
    /\ Idle(t)
    /\ task' = [task EXCEPT ![t] =
           [IdleTask EXCEPT !.op = "create_product", !.code = code,
                            !.res = Error(ATTRIBUTE_ERROR)]]
    /\ UNCHANGED <<store, memory_cache, locks, aside>>

----------------------------------------------------------------------------
(* get_growid, get_balance, get_product: the store fails under the lock    *)

\* the frames that read the store under a lock
ReadBodies == {"gg_body", "gb_body", "gp_body"}

\* the key the body released in its finally block
BodyKey(tk) ==
    CASE Head(tk.stack) = "gg_body" -> Key("growid", tk.h)
      [] Head(tk.stack) = "gb_body" -> Key("balance", tk.g)
      [] Head(tk.stack) = "gp_body" -> Key("product_get", tk.code)

\* what the except clause of the body returns
ReadError(label) ==
    CASE label = "gg_body" -> Error(DATABASE_ERROR)
      [] label = "gb_body" -> Error(BALANCE_FAILED)
      [] label = "gp_body" -> Error("None")

\* an exception leaves get_growid, get_balance or get_product: the nearest
\* enclosing try of the caller catches it (update_balance and the process_*
\* operations answer TRANSACTION_FAILED and release their own lock), and
\* with no caller inside the services it reaches the caller of the operation
Propagate(m, e) ==
    LET tk == m.tk
    IN  IF tk.stack = << >> THEN [m EXCEPT !.tk.res = Error(e)]
        ELSE CASE Head(tk.stack) = "ub_body" ->
                      Finish(m, Error(TRANSACTION_FAILED), Key("balance_update", tk.g))
               [] Head(tk.stack) = "pd_growid" ->
                      Finish(m, Error(TRANSACTION_FAILED), Key("deposit", tk.h))
               [] Head(tk.stack) \in {"pw_growid", "pw_check"} ->
                      Finish(m, Error(TRANSACTION_FAILED), Key("withdrawal", tk.h))
               [] Head(tk.stack) \in {"pp_growid", "pp_product"} ->
                      Finish(m, Error(TRANSACTION_FAILED),
                             Key("purchase", <<tk.h, tk.code>>))
               [] Head(tk.stack) = "us_done" ->
                      Finish(m, Error(e), Key("stock_update", tk.id))

\* a statement on the open connection raises: the except clause returns the
\* error, the finally block closes the connection and releases the lock
execute_raises(t) ==
    LET tk == task[t]
    IN  /\ Running(t)
        /\ Head(tk.stack) \in ReadBodies
        /\ Resume(t, Return(tk, ReadError(Head(tk.stack))),
                  release_lock(locks, BodyKey(tk)), memory_cache)
        /\ UNCHANGED <<store, aside>>

\* get_connection() raises: conn was never bound (it is assigned only inside
\* the try block), so `if conn:` in the finally block raises
\* UnboundLocalError, release_lock is not reached, and the exception replaces
\* the return value of the except clause
get_connection_raises(t) ==
    LET tk == task[t]
        m == Propagate([tk |-> Goto(tk, << >>), lk |-> locks], "UnboundLocalError")
    IN  /\ Running(t)
        /\ Head(tk.stack) \in ReadBodies
        /\ Resume(t, m.tk, m.lk, memory_cache)
        /\ UNCHANGED <<store, aside>>

----------------------------------------------------------------------------
(* trx.py: process_purchase                                                *)

----------------------------------------------------------------------------
(* product_manager.py: the stock operations                                *)

\* the ids in s, smallest first (ORDER BY added_at ASC: ids are given in the
\* order the units were added)
RECURSIVE Ascending(_)
Ascending(s) ==
    IF s = {} THEN << >>
    ELSE LET least == CHOOSE i \in s : \A j \in s : i <= j
         IN  <<least>> \o Ascending(s \ {least})

\* SELECT id, content, added_at FROM stock WHERE product_code = ? AND status = ?
\* ORDER BY added_at ASC LIMIT ?
SelectAvailable(tbl, code, quantity) ==
    Slice(Ascending({i \in DOMAIN tbl : tbl[i].product_code = code
                                        /\ tbl[i].status = AVAILABLE}), quantity)

\* SELECT COUNT(*) FROM stock WHERE product_code = ? AND status = ?
CountAvailable(tbl, code) ==
    Cardinality({i \in DOMAIN tbl : tbl[i].product_code = code
                                    /\ tbl[i].status = AVAILABLE})

CallGetStockCount(t, code) ==
    /\ Idle(t)
    /\ Resume(t, [IdleTask EXCEPT !.op = "get_stock_count", !.code = code,
                                  !.stack = <<"gc_check">>], locks, memory_cache)
    /\ UNCHANGED <<store, aside>>

\* store count under the lock stock_count_<code>
get_stock_count(t) ==
    LET tk == task[t]
        result == CountAvailable(stock, tk.code)
    IN  /\ Running(t)
        /\ Head(tk.stack) = "gc_body"
        /\ Resume(t, [Return(tk, Success(ZeroBalance)) EXCEPT !.count = result],
                  release_lock(locks, Key("stock_count", tk.code)),
                  CacheSet(memory_cache, Key("stock_count", tk.code), result))
        /\ UNCHANGED <<store, aside>>

CallGetAvailableStock(t, code, quantity) ==
    /\ Idle(t)
    /\ IF quantity < 1
       THEN Resume(t, [IdleTask EXCEPT !.op = "get_available_stock", !.code = code,
                                      !.q = quantity,
                                      !.res = Error(INVALID_AMOUNT)],
                   locks, memory_cache)
       ELSE Resume(t, [IdleTask EXCEPT !.op = "get_available_stock", !.code = code,
                                      !.q = quantity, !.stack = <<"ga_check">>],
                   locks, memory_cache)
    /\ UNCHANGED <<store, aside>>

\* store query under the lock stock_get_<code>
get_available_stock(t) ==
    LET tk == task[t]
        result == SelectAvailable(stock, tk.code, tk.q)
    IN  /\ Running(t)
        /\ Head(tk.stack) = "ga_body"
        /\ Resume(t, [Return(tk, Success(ZeroBalance)) EXCEPT !.units = result],
                  release_lock(locks, Key("stock_get", tk.code)),
                  CacheSet(memory_cache, Key("stock_q", <<tk.code, tk.q>>), result))
        /\ UNCHANGED <<store, aside>>

CallAddStockItem(t, code) ==
    /\ Idle(t)
    /\ task' = [task EXCEPT ![t] =
           [IdleTask EXCEPT !.op = "add_stock_item", !.code = code,
                            !.stack = <<"as_lock">>]]
    /\ UNCHANGED <<store, memory_cache, locks, aside>>

CallUpdateStockStatus(t, stock_id, status, buyer_id) ==
    /\ Idle(t)
    /\ task' = [task EXCEPT ![t] =
           IF status \notin StatusValues
           THEN [IdleTask EXCEPT !.op = "update_stock_status", !.id = stock_id,
                                 !.status = status, !.buyer = buyer_id,
                                 !.res = Error(INVALID_STATUS)]
           ELSE [IdleTask EXCEPT !.op = "update_stock_status", !.id = stock_id,
                                 !.status = status, !.buyer = buyer_id,
                                 !.stack = <<"us_lock">>]]
    /\ UNCHANGED <<store, memory_cache, locks, aside>>

\* UPDATE stock SET status = ? [, buyer_id = ?] WHERE id = ?: the buyer is
\* written only when one is given
UpdateStock(tbl, stock_id, status, buyer_id) ==
    [tbl EXCEPT ![stock_id] =
        [@ EXCEPT !.status = status,
                  !.buyer_id = IF buyer_id # "" THEN buyer_id ELSE @]]

\* the entries update_stock_status deletes: stock_count_<code>, stock_<code>
\* and stock_<code>_q<i> for i in 1..MAX_ITEMS
DeleteStockCaches(cache, code) ==
    LET gone == {Key("stock_count", code), Key("stock", code)}
                    \cup {k \in DOMAIN cache :
                              /\ k[1] = "stock_q"
                              /\ k[2][1] = code
                              /\ k[2][2] \in 1..MAX_ITEMS}
    IN  [k \in (DOMAIN cache) \ gone |-> cache[k]]

\* the store update under the lock stock_update_<id>, the invalidation, and
\* the call of get_product
update_stock_status(t) ==
    LET tk == task[t]
    IN  /\ Running(t)
        /\ Head(tk.stack) = "us_body"
        /\ IF tk.id \notin DOMAIN stock
           THEN /\ Resume(t, Return(tk, Error(KEY_ERROR)),
                          release_lock(locks, Key("stock_update", tk.id)),
                          memory_cache)
                /\ UNCHANGED <<store, aside>>
           ELSE /\ stock' = UpdateStock(stock, tk.id, tk.status, tk.buyer)
                /\ Resume(t, [Goto(tk, <<"gp_check", "us_done">>) EXCEPT
                                 !.code = stock[tk.id].product_code,
                                 !.wrote = TRUE],
                          locks,
                          DeleteStockCaches(memory_cache, stock[tk.id].product_code))
                /\ UNCHANGED <<users, user_growid, transactions, products, cache_table, aside>>

CallProcessPurchase(t, h, code, q) ==
    /\ Idle(t)
    /\ task' = [task EXCEPT ![t] =
           IF q < 1
           THEN [IdleTask EXCEPT !.op = "process_purchase", !.h = h, !.code = code,
                                 !.q = q, !.res = Error(INVALID_AMOUNT)]
           ELSE [IdleTask EXCEPT !.op = "process_purchase", !.h = h, !.code = code,
                                 !.q = q, !.stack = <<"pp_lock">>]]
    /\ UNCHANGED <<store, memory_cache, locks, aside>>

----------------------------------------------------------------------------
(* cache_manager.py: CacheManager.  In the specifications of the services  *)
(* an entry of memory_cache stands for its value and Expire drops it; in   *)
(* the specifications of the cache manager an entry is the dict            *)
(* {'value', 'expires_at'} the code keeps, with expires_at counted in      *)
(* instants from now (Tick lets one instant pass).  None of get, set,      *)
(* delete and clear is suspended: the asyncio lock they take is never held *)
(* across a suspension.                                                    *)

\* capacity of the in-process map (10000 in the source, scaled down)
MAX_MEMORY_ITEMS == 20

\* json.dumps(value, cls=CustomJSONEncoder): a tuple and a list are both
\* written as an array, a Balance as an object tagged with its class
dumps(v) ==
    CASE v.type \in {"tuple", "list"} -> [json |-> "array", body |-> v.body]
      [] v.type = "Balance" -> [json |-> "object Balance", body |-> v.body]
      [] OTHER -> [json |-> "string", body |-> v.body]

\* json.loads(text, cls=CustomJSONDecoder): an array becomes a list, the
\* tagged object goes through the Balance constructor
loads(text) ==
    CASE text.json = "array" -> [type |-> "list", body |-> text.body]
      [] text.json = "object Balance" ->
             [type |-> "Balance",
              body |-> [i \in 1..Len(text.body) |-> Max(0, text.body[i])]]
      [] OTHER -> [type |-> "str", body |-> text.body]

\* _is_valid, and the comparison of get with the row of the store
is_valid(entry) == entry.expires_at > 0

\* the positions of the entries in the dict, counted from 1 without gaps
Ranked(cache) ==
    [k \in DOMAIN cache |->
        [cache[k] EXCEPT !.order =
            Cardinality({j \in DOMAIN cache : cache[j].order <= cache[k].order})]]

\* memory_cache[key] = {'value': ..., 'expires_at': ...}: a new key goes to
\* the end of the dict, a key that is there keeps its position
Insert(cache, key, value, expires_at) ==
    [k \in (DOMAIN cache) \cup {key} |->
        IF k # key THEN cache[k]
        ELSE [value |-> value, expires_at |-> expires_at,
              order |-> IF key \in DOMAIN cache THEN cache[key].order
                        ELSE Cardinality(DOMAIN cache) + 1]]

\* del memory_cache[key]
Forget(cache, key) == Ranked(CacheDelete(cache, key))

\* the map without the n entries that sort first by expires_at (sorted() is
\* stable: entries with equal expires_at sort in the order of the dict)
RECURSIVE RemoveOldest(_, _)
RemoveOldest(cache, n) ==
    IF n = 0 \/ cache = << >> THEN cache
    ELSE LET first == CHOOSE k \in DOMAIN cache : \A j \in DOMAIN cache :
                          \/ cache[k].expires_at < cache[j].expires_at
                          \/ /\ cache[k].expires_at = cache[j].expires_at
                             /\ cache[k].order <= cache[j].order
         IN  RemoveOldest(Forget(cache, first), n - 1)

\* a limit that removes a tenth of the entries in excess of the capacity
enforce_memory_limit_overflow(cache) ==
    IF Cardinality(DOMAIN cache) > MAX_MEMORY_ITEMS
    THEN RemoveOldest(cache,
             ((Cardinality(DOMAIN cache) - MAX_MEMORY_ITEMS) + 9) \div 10)
    ELSE cache
\* _enforce_memory_limit: above the capacity, int(MAX_MEMORY_ITEMS * 0.1)
\* entries are removed
enforce_memory_limit(cache) ==
    IF Cardinality(DOMAIN cache) > MAX_MEMORY_ITEMS
    THEN RemoveOldest(cache, MAX_MEMORY_ITEMS \div 10)
    ELSE cache

\* where the key is held when an operation starts, and in which state
Found(key) ==
    {"memory" : k \in {j \in DOMAIN memory_cache :
                            j = key /\ is_valid(memory_cache[j])}}
      \cup {"memory expired" : k \in {j \in DOMAIN memory_cache :
                                          j = key /\ ~is_valid(memory_cache[j])}}
      \cup {"store" : k \in {j \in DOMAIN cache_table :
                                 j = key /\ is_valid(cache_table[j])}}
      \cup {"store expired" : k \in {j \in DOMAIN cache_table :
                                         j = key /\ ~is_valid(cache_table[j])}}

\* the operation has run and answers value and success flag
CacheReturn(t, op, key, value, ok, permanent) ==
    task' = [task EXCEPT ![t] =
        [IdleTask EXCEPT !.op = op, !.key = key, !.value = value,
                         !.found = Found(key),
                         !.permanent = permanent,
                         !.res = IF ok THEN Success(ZeroBalance)
                                 ELSE Error(DATABASE_ERROR)]]

\* set: the entry is put into the map, the limit is enforced, and with
\* permanent the row is written (fault: the store raises, False is answered)
set(t, key, value, expires_in, permanent, fault) ==
    /\ Idle(t)
    /\ memory_cache' =
           enforce_memory_limit(Insert(memory_cache, key, value, expires_in))
    /\ cache_table' =
           IF permanent /\ ~fault
           THEN CacheSet(cache_table, key,
                         [value |-> dumps(value), expires_at |-> expires_in,
                          original |-> value])
           ELSE cache_table
    /\ CacheReturn(t, "set", key, value, ~(permanent /\ fault), permanent)
    /\ latest' = CacheSet(latest, key, value)
    /\ UNCHANGED <<users, user_growid, transactions, products, stock, locks, view>>

\* a get that answers the entry of the map whatever its expires_at is
get_any(t, key, fault) ==
    /\ Idle(t)
    /\ key \in DOMAIN memory_cache
    /\ CacheReturn(t, "get", key, memory_cache[key].value, TRUE, FALSE)
    /\ UNCHANGED <<store, memory_cache, locks, aside>>
\* get: a valid entry of the map is answered; an expired one is deleted;
\* then the row of the store is read: valid, it is decoded, put into the map
\* with its expires_at and answered; expired, it is deleted
get(t, key, fault) ==
    LET hit == key \in DOMAIN memory_cache /\ is_valid(memory_cache[key])
        memory == Forget(memory_cache, key)
        row == cache_table[key]
    IN  /\ Idle(t)
        /\ IF hit
           THEN /\ CacheReturn(t, "get", key, memory_cache[key].value, TRUE, FALSE)
                /\ UNCHANGED <<memory_cache, cache_table>>
           ELSE IF fault \/ key \notin DOMAIN cache_table
           THEN /\ CacheReturn(t, "get", key, NoValue, ~fault, FALSE)
                /\ memory_cache' = memory
                /\ UNCHANGED cache_table
           ELSE IF is_valid(row)
           THEN /\ CacheReturn(t, "get", key, loads(row.value), TRUE, FALSE)
                /\ memory_cache' =
                       enforce_memory_limit(
                           Insert(memory, key, loads(row.value), row.expires_at))
                /\ UNCHANGED cache_table
           ELSE /\ CacheReturn(t, "get", key, NoValue, TRUE, FALSE)
                /\ memory_cache' = memory
                /\ cache_table' = CacheDelete(cache_table, key)
        /\ UNCHANGED <<users, user_growid, transactions, products, stock, locks, aside>>

\* a delete that leaves the row of the store
delete_memory_only(t, key, fault) ==
    /\ Idle(t)
    /\ memory_cache' = Forget(memory_cache, key)
    /\ CacheReturn(t, "delete", key, NoValue, TRUE, FALSE)
    /\ UNCHANGED <<store, locks, aside>>
\* delete: the entry of the map and the row of the store
delete(t, key, fault) ==
    /\ Idle(t)
    /\ memory_cache' = Forget(memory_cache, key)
    /\ cache_table' = IF fault THEN cache_table ELSE CacheDelete(cache_table, key)
    /\ CacheReturn(t, "delete", key, NoValue, ~fault, FALSE)
    /\ latest' = IF fault THEN latest ELSE CacheDelete(latest, key)
    /\ UNCHANGED <<users, user_growid, transactions, products, stock, locks, view>>

\* clear: the whole map and every row of the store
clear(t, fault) ==
    /\ Idle(t)
    /\ memory_cache' = << >>
    /\ cache_table' = IF fault THEN cache_table ELSE << >>
    /\ CacheReturn(t, "clear", << >>, NoValue, ~fault, FALSE)
    /\ latest' = IF fault THEN latest ELSE << >>
    /\ UNCHANGED <<users, user_growid, transactions, products, stock, locks, view>>

\* one instant passes: every expires_at comes one instant nearer
Elapse(cache) ==
    [k \in DOMAIN cache |-> [cache[k] EXCEPT !.expires_at = Max(0, @ - 1)]]

Tick ==
    /\ NoneReturned
    /\ \/ \E k \in DOMAIN memory_cache : is_valid(memory_cache[k])
       \/ \E k \in DOMAIN cache_table : is_valid(cache_table[k])
    /\ memory_cache' = Elapse(memory_cache)
    /\ cache_table' = Elapse(cache_table)
    /\ UNCHANGED <<users, user_growid, transactions, products, stock, locks, task, aside>>

\* the process is started again: the map is empty, the store is kept
Restart ==
    /\ NoneReturned
    /\ memory_cache # << >>
    /\ memory_cache' = << >>
    /\ UNCHANGED <<store, locks, task, aside>>

----------------------------------------------------------------------------
(* live_buttons.py: ShopView, the lock of an interaction id.  A callback   *)
(* rests where it awaits asyncio.wait_for(lock.acquire(), 3.0) and inside  *)
(* its try block; the Lock it waits for is the one the table held for the  *)
(* id when acquire() was called.                                           *)

\* the Lock objects that the table or a callback still refers to
Referenced(tbl, cb) ==
    {tbl[i] : i \in DOMAIN tbl}
        \cup {cb[c].lock : c \in {x \in DOMAIN cb : cb[x].pc # "idle"}}

\* asyncio.Lock(): an object that is none of the ones alive
NewLock ==
    CHOOSE n \in 1..(Cardinality(Callbacks) + Cardinality(InteractionIds) + 1) :
        n \notin DOMAIN asyncio_locks

\* the objects nothing refers to any more are gone
Collect(objects, tbl, cb) ==
    [o \in (DOMAIN objects) \cap Referenced(tbl, cb) |-> objects[o]]

\* _cleanup_locks: the whole table is cleared once 300 s have passed
cleanup_locks(tbl) == IF last_cleanup > 0 THEN << >> ELSE tbl

\* _acquire_interaction_lock up to the await: the cleanup, the Lock of the
\* id is created when the table has none, and acquire() is called on it
acquire_interaction_lock(c, id) ==
    LET tbl == cleanup_locks(interaction_locks)
        lock == IF id \in DOMAIN tbl THEN tbl[id] ELSE NewLock
        table == CacheSet(tbl, id, lock)
        cb == [callback EXCEPT ![c] = [pc |-> "acquire", id |-> id, lock |-> lock]]
        objects == IF lock \in DOMAIN asyncio_locks THEN asyncio_locks
                   ELSE CacheSet(asyncio_locks, lock, FALSE)
    IN  /\ callback[c].pc = "idle"
        /\ interaction_locks' = table
        /\ last_cleanup' = 0
        /\ callback' = cb
        /\ asyncio_locks' = Collect(objects, table, cb)
        /\ UNCHANGED <<store, memory_cache, locks, task, latest>>

\* acquire() returns: the Lock was free and is now locked; the callback
\* enters its try block
lock_acquired(c) ==
    /\ callback[c].pc = "acquire"
    /\ ~asyncio_locks[callback[c].lock]
    /\ asyncio_locks' = [asyncio_locks EXCEPT ![callback[c].lock] = TRUE]
    /\ callback' = [callback EXCEPT ![c].pc = "held"]
    /\ UNCHANGED <<store, memory_cache, locks, task, latest, interaction_locks,
                   last_cleanup>>

\* wait_for gives up after 3 s on a Lock that stays locked: False is
\* answered and the callback returns without entering its try block
lock_timeout(c) ==
    LET cb == [callback EXCEPT ![c] = [pc |-> "idle", id |-> "", lock |-> 0]]
    IN  /\ callback[c].pc = "acquire"
        /\ asyncio_locks[callback[c].lock]
        /\ callback' = cb
        /\ asyncio_locks' = Collect(asyncio_locks, interaction_locks, cb)
        /\ UNCHANGED <<store, memory_cache, locks, task, latest, interaction_locks,
                       last_cleanup>>

\* _release_interaction_lock: the Lock the table holds for the id is
\* released when it is locked
Released(tbl, objects, id) ==
    IF id \in DOMAIN tbl /\ objects[tbl[id]]
    THEN [objects EXCEPT ![tbl[id]] = FALSE]
    ELSE objects

\* the finally block of a callback
release_interaction_lock(c) ==
    LET cb == [callback EXCEPT ![c] = [pc |-> "idle", id |-> "", lock |-> 0]]
    IN  /\ callback[c].pc = "held"
        /\ callback' = cb
        /\ asyncio_locks' =
               Collect(Released(interaction_locks, asyncio_locks, callback[c].id),
                       interaction_locks, cb)
        /\ UNCHANGED <<store, memory_cache, locks, task, latest, interaction_locks,
                       last_cleanup>>

\* 300 s pass without a call of _cleanup_locks
CleanupPeriodPasses ==
    /\ last_cleanup = 0
    /\ last_cleanup' = 1
    /\ UNCHANGED <<store, memory_cache, locks, task, latest, interaction_locks,
                   asyncio_locks, callback>>

----------------------------------------------------------------------------
(* Specification                                                           *)

CacheKeys ==
    {Key("balance", g) : g \in Accounts} \cup {Key("growid", h) : h \in Handles}

\* the caller takes the response of a finished operation
ReturnToCaller(t) ==
    /\ Returned(t)
    /\ task' = [task EXCEPT ![t] = IdleTask]
    /\ UNCHANGED <<store, memory_cache, locks, aside>>

\* the steps of a coroutine that has been started: the event loop runs it
\* until its next suspension, or hands its response to the caller
TaskStep(t) ==
    \/ acquire_lock(t)
    \/ acquire_timeout(t)
    \/ register_user(t)
    \/ get_growid(t)
    \/ get_balance(t)
    \/ update_balance(t, "none")
    \/ get_product(t)
    \/ update_stock_status(t)
    \/ ReturnToCaller(t)

Next ==
    \/ \E t \in Tasks, h \in Handles, g \in GrowIds : CallRegisterUser(t, h, g)
    \/ \E t \in Tasks, g \in Accounts : CallGetBalance(t, g)
    \/ \E t \in Tasks, g \in Accounts, d \in Deltas : CallUpdateBalance(t, g, d)
    \/ \E t \in Tasks, h \in Handles, amt \in Amounts : CallProcessDeposit(t, h, amt)
    \/ \E t \in Tasks, h \in Handles, amt \in Amounts : CallProcessWithdrawal(t, h, amt)
    \/ \E t \in Tasks, h \in Handles, c \in ProductCodes, q \in Quantities :
           CallProcessPurchase(t, h, c, q)
    \/ \E t \in Tasks : acquire_lock(t)
    \/ \E t \in Tasks : acquire_timeout(t)
    \/ \E t \in Tasks : register_user(t)
    \/ \E t \in Tasks : get_growid(t)
    \/ \E t \in Tasks : get_balance(t)
    \/ \E t \in Tasks, fault \in Faults : update_balance(t, fault)
    \/ \E t \in Tasks : get_product(t)
    \/ \E key \in CacheKeys : Expire(key)
    \/ \E t \in Tasks : ReturnToCaller(t)

Spec == Init /\ [][Next]_vars

\* the cache manager alone: two keys, a tuple and a Balance as values
ManagerKeys == {Key("k", 1), Key("k", 2)}
ManagerValues ==
    {[type |-> "tuple", body |-> <<1, 2>>], [type |-> "Balance", body |-> <<1, 0, 0>>]}
ExpiresIn == {1, 2}

NextCache ==
    \/ \E t \in Tasks, key \in ManagerKeys, value \in ManagerValues,
          expires_in \in ExpiresIn, permanent \in BOOLEAN, fault \in BOOLEAN :
           set(t, key, value, expires_in, permanent, fault)
    \/ \E t \in Tasks, key \in ManagerKeys, fault \in BOOLEAN : get(t, key, fault)
    \/ \E t \in Tasks, key \in ManagerKeys, fault \in BOOLEAN : delete(t, key, fault)
    \/ \E t \in Tasks, fault \in BOOLEAN : clear(t, fault)
    \/ Tick
    \/ Restart
    \/ \E t \in Tasks : ReturnToCaller(t)

SpecCache == Init /\ [][NextCache]_vars

\* the map of the cache manager filled beyond its capacity by one caller:
\* a durable key is set first, then one new key after the other, two more
\* than the capacity in all; the durable key is read again at any time
DurableKey == Key("k", 1)
NewKey ==
    Key("k", 1 + Cardinality({i \in 1..(MAX_MEMORY_ITEMS + 2) :
                                \E k \in DOMAIN memory_cache : k[2] >= i}))
FillValue == [type |-> "str", body |-> <<1>>]

NextEvict ==
    \/ /\ memory_cache = << >> /\ cache_table = << >>
       /\ set("t1", DurableKey, FillValue, 2, TRUE, FALSE)
    \/ /\ memory_cache # << >>
       /\ NewKey[2] <= MAX_MEMORY_ITEMS + 2
       /\ set("t1", NewKey, FillValue, 2, FALSE, FALSE)
    \/ get("t1", DurableKey, FALSE)
    \/ Tick
    \/ ReturnToCaller("t1")

SpecEvict == Init /\ [][NextEvict]_vars

\* the stock operations of the product manager
StockIds == {1}
StockQuantities == {0, 1, MAX_ITEMS + 1}
Buyers == {"", "H1"}
StockCacheKeys ==
    {Key("stock_count", c) : c \in ProductCodes}
        \cup {Key("stock_q", <<c, q>>) : c \in ProductCodes, q \in StockQuantities}

NextStock ==
    \/ \E t \in Tasks, c \in ProductCodes : CallGetStockCount(t, c)
    \/ \E t \in Tasks, c \in ProductCodes, q \in StockQuantities :
           CallGetAvailableStock(t, c, q)
    \/ \E t \in Tasks, c \in ProductCodes : CallAddStockItem(t, c)
    \/ \E t \in Tasks, i \in StockIds, status \in StatusValues, b \in Buyers :
           CallUpdateStockStatus(t, i, status, b)
    \/ \E t \in Tasks : acquire_lock(t)
    \/ \E t \in Tasks : acquire_timeout(t)
    \/ \E t \in Tasks : get_stock_count(t)
    \/ \E t \in Tasks : get_available_stock(t)
    \/ \E t \in Tasks : update_stock_status(t)
    \/ \E t \in Tasks : get_product(t)
    \/ \E key \in StockCacheKeys : Expire(key)
    \/ \E t \in Tasks : ReturnToCaller(t)

SpecStock == Init /\ [][NextStock]_vars

\* the operations that take a lock while they hold another one, with the
\* reads they share and a balance entry that expires.  The event loop runs its
\* ready coroutines in turn and acquire_lock gives up when its timeout has
\* passed, so a coroutine that can take a step again and again does take
\* one (strong fairness: in the model its step is disabled for the moment
\* in which another response is handed to its caller)

NextLive ==
    \/ \E t \in Tasks, h \in Handles, g \in Accounts : CallRegisterUser(t, h, g)
    \/ \E t \in Tasks, g \in Accounts : CallGetBalance(t, g)
    \/ \E t \in Tasks, h \in Handles, amt \in { <<150, 0, 0>> } :
           CallProcessDeposit(t, h, amt)
    \/ \E t \in Tasks, h \in Handles, c \in ProductCodes :
           CallProcessPurchase(t, h, c, 1)
    \/ \E t \in Tasks, h \in Handles : CallUpdateStockStatus(t, 1, SOLD, h)
    \/ \E t \in Tasks, c \in {"P2"} : create_product(t, c)
    \/ \E t \in Tasks : TaskStep(t)
    \/ \E g \in Accounts : Expire(Key("balance", g))

SpecLive == Init /\ [][NextLive]_vars /\ \A t \in Tasks : SF_vars(TaskStep(t))

\* the shop view alone: two callbacks on two interaction ids
NextView ==
    \/ \E c \in Callbacks, id \in InteractionIds : acquire_interaction_lock(c, id)
    \/ \E c \in Callbacks : lock_acquired(c)
    \/ \E c \in Callbacks : lock_timeout(c)
    \/ \E c \in Callbacks : release_interaction_lock(c)
    \/ CleanupPeriodPasses

SpecView == Init /\ [][NextView]_vars

\* the identity links alone: two handles and two valid names
IdentityHandles == {"H1", "H2"}
IdentityGrowIds == {"ALICE", "BOB"}

NextIdentity ==
    \/ \E t \in Tasks, h \in IdentityHandles, g \in IdentityGrowIds :
           CallRegisterUser(t, h, g)
    \/ \E t \in Tasks, h \in IdentityHandles : CallGetGrowid(t, h)
    \/ \E t \in Tasks : acquire_lock(t)
    \/ \E t \in Tasks : acquire_timeout(t)
    \/ \E t \in Tasks : register_user(t)
    \/ \E t \in Tasks : get_growid(t)
    \/ \E h \in IdentityHandles : Expire(Key("growid", h))
    \/ \E t \in Tasks : ReturnToCaller(t)

SpecIdentity == Init /\ [][NextIdentity]_vars

\* two buyers with an account each: registrations, deposits of the first,
\* purchases of the one product by both, and unit 1 marked SOLD for the
\* second outside a purchase
NextPurchase ==
    \/ \E t \in Tasks, r \in {<<"H1", "ALICE">>, <<"H2", "BOB">>} :
           CallRegisterUser(t, r[1], r[2])
    \/ \E t \in Tasks : CallProcessDeposit(t, "H1", <<150, 0, 0>>)
    \/ \E t \in Tasks, h \in IdentityHandles, c \in ProductCodes :
           CallProcessPurchase(t, h, c, 1)
    \/ \E t \in Tasks : CallUpdateStockStatus(t, 1, SOLD, "H2")
    \/ \E t \in Tasks : TaskStep(t)

SpecPurchase == Init /\ [][NextPurchase]_vars

\* the reads under a lock with a store that can fail, and get_product called
\* on its own next to a purchase
FaultDeposits == { <<150, 0, 0>> }

NextFaults ==
    \/ \E t \in Tasks, h \in Handles, g \in Accounts : CallRegisterUser(t, h, g)
    \/ \E t \in Tasks, h \in Handles : CallGetGrowid(t, h)
    \/ \E t \in Tasks, g \in Accounts : CallGetBalance(t, g)
    \/ \E t \in Tasks, c \in ProductCodes : CallGetProduct(t, c)
    \/ \E t \in Tasks, h \in Handles, amt \in FaultDeposits :
           CallProcessDeposit(t, h, amt)
    \/ \E t \in Tasks, h \in Handles, c \in ProductCodes :
           CallProcessPurchase(t, h, c, 1)
    \/ \E t \in Tasks : acquire_lock(t)
    \/ \E t \in Tasks : acquire_timeout(t)
    \/ \E t \in Tasks : register_user(t)
    \/ \E t \in Tasks : get_growid(t)
    \/ \E t \in Tasks : get_balance(t)
    \/ \E t \in Tasks : update_balance(t, "none")
    \/ \E t \in Tasks : get_product(t)
    \/ \E t \in Tasks : execute_raises(t)
    \/ \E t \in Tasks : get_connection_raises(t)
    \/ \E key \in CacheKeys \cup {Key("product", c) : c \in ProductCodes} : Expire(key)
    \/ \E t \in Tasks : ReturnToCaller(t)

SpecFaults == Init /\ [][NextFaults]_vars

\* Balance.from_wl applied to the total of a valid balance
WlSamples == {0, 1, 99, 100, 150, 9999, 10000, 999999, 1000000}
TierSamples == {0, 1, 99, 100}
ValidBalances ==
    {b \in {Balance(w, d, g) : w \in WlSamples, d \in TierSamples, g \in TierSamples} :
        validate(b)}

CallFromWl(t, b) ==
    /\ Idle(t)
    /\ task' = [task EXCEPT ![t] =
           [IdleTask EXCEPT !.op = "from_wl", !.cur = b,
                            !.res = Success(from_wl(total_wl(b)))]]
    /\ UNCHANGED <<store, memory_cache, locks, aside>>

NextFromWl ==
    \/ \E t \in Tasks, b \in ValidBalances : CallFromWl(t, b)
    \/ \E t \in Tasks : ReturnToCaller(t)

SpecFromWl == Init /\ [][NextFromWl]_vars

\* the operations of the balance service, with the transaction history
Limits == {1, 2}

NextBalance ==
    \/ \E t \in Tasks, h \in Handles, g \in Accounts : CallRegisterUser(t, h, g)
    \/ \E t \in Tasks, h \in Handles : CallGetGrowid(t, h)
    \/ \E t \in Tasks, g \in Accounts : CallGetBalance(t, g)
    \/ \E t \in Tasks, g \in Accounts, d \in Deltas : CallUpdateBalance(t, g, d)
    \/ \E t \in Tasks, g \in Accounts, limit \in Limits :
           get_transaction_history(t, g, limit)
    \/ \E t \in Tasks : acquire_lock(t)
    \/ \E t \in Tasks : acquire_timeout(t)
    \/ \E t \in Tasks : register_user(t)
    \/ \E t \in Tasks : get_growid(t)
    \/ \E t \in Tasks : get_balance(t)
    \/ \E t \in Tasks, fault \in Faults : update_balance(t, fault)
    \/ \E key \in CacheKeys \cup {Key("trx_history", g) : g \in Accounts} : Expire(key)
    \/ \E t \in Tasks : ReturnToCaller(t)

SpecBalance == Init /\ [][NextBalance]_vars

----------------------------------------------------------------------------
(* Properties                                                              *)

\* the frames a task still has to run
Frames(tk) == {tk.stack[i] : i \in 1..Len(tk.stack)}

\* the task is inside update_balance for account g, holding its lock
InUpdate(t, g) == "ub_body" \in Frames(task[t]) /\ task[t].g = g

\* this step is task t leaving the body of update_balance
UpdateBodyStep(t) ==
    /\ task[t].stack # << >>
    /\ Head(task[t].stack) = "ub_body"
    /\ task'[t] # task[t]

\* this step is task t leaving update_balance with a success response
UpdateSucceeds(t) == UpdateBodyStep(t) /\ task'[t].res.ok

\* this step appends exactly one ledger row
LedgerGrew ==
    /\ Len(transactions') = Len(transactions) + 1
    /\ SubSeq(transactions', 1, Len(transactions)) = transactions

\* the amounts a formatted balance text stands for
unformat(parts) ==
    LET tier(unit) ==
            IF \E i \in 1..Len(parts) : parts[i][2] = unit
            THEN parts[CHOOSE i \in 1..Len(parts) : parts[i][2] = unit][1]
            ELSE 0
    IN  [wl |-> tier("WL"), dl |-> tier("DL"), bgl |-> tier("BGL")]

\* the sum, per tier, of new_balance - old_balance over the ledger rows of g
RECURSIVE LedgerSum(_, _)
LedgerSum(rows, g) ==
    IF rows = << >> THEN ZeroBalance
    ELSE LET r == Head(rows)
             rest == LedgerSum(Tail(rows), g)
             new == unformat(r.new_balance)
             old == unformat(r.old_balance)
         IN  IF r.growid # g THEN rest
             ELSE [wl |-> rest.wl + new.wl - old.wl,
                   dl |-> rest.dl + new.dl - old.dl,
                   bgl |-> rest.bgl + new.bgl - old.bgl]

\* what a get_balance issued in this state returns for g
GetBalanceNow(g) ==
    IF CacheHit(memory_cache, Key("balance", g)) THEN memory_cache[Key("balance", g)]
    ELSE IF g \in DOMAIN users THEN users[g]
    ELSE ZeroBalance

\* the number of AVAILABLE units of a product
Available(code) ==
    Cardinality({i \in DOMAIN stock : stock[i].product_code = code
                                      /\ stock[i].status = AVAILABLE})

Last(rows) == rows[Len(rows)]

\* a negative delta is larger than the tier of b it is taken from
ExceedsTier(d, b) ==
    \/ d[1] < 0 /\ 0 - d[1] > b.wl
    \/ d[2] < 0 /\ 0 - d[2] > b.dl
    \/ d[3] < 0 /\ 0 - d[3] > b.bgl

\* C1: every stored balance has non-negative WL, DL and BGL tiers and a total
\* between 0 and 1,000,000 WL, whatever interleaving of register_user,
\* update_balance, process_deposit, process_withdrawal and process_purchase
\* produced it.
C1_BalanceInRange ==
    \A g \in DOMAIN users :
        /\ users[g].wl >= 0
        /\ users[g].dl >= 0
        /\ users[g].bgl >= 0
        /\ 0 <= total_wl(users[g])
        /\ total_wl(users[g]) <= 1000000

\* an account stands exactly at the upper limit and a further credit to it
\* has just been refused
C1_Witness ==
    \E t \in Tasks :
        /\ Returned(t)
        /\ task[t].op = "update_balance"
        /\ task[t].res.err = INVALID_AMOUNT
        /\ task[t].g \in DOMAIN users
        /\ total_wl(users[task[t].g]) = 1000000

\* C2: operations under the same key balance_update_<account> are strictly
\* serialized: two tasks are never both inside update_balance for one
\* account, and no update is lost (every stored balance is the sum of the
\* changes its ledger rows record).
C2_Serialized ==
    /\ \A t1 \in Tasks, t2 \in Tasks, g \in GrowIds :
           (t1 # t2) => ~(InUpdate(t1, g) /\ InUpdate(t2, g))
    /\ \A g \in DOMAIN users : users[g] = LedgerSum(transactions, g)

\* one task has committed its update while the other, started concurrently
\* on the same account, is queued on or holding the same lock key
C2_Witness ==
    \E t1 \in Tasks, t2 \in Tasks :
        /\ t1 # t2
        /\ Returned(t1)
        /\ task[t1].op \in LedgerWriters
        /\ task[t1].res.ok
        /\ Len(transactions) = 1
        /\ task[t2].g = task[t1].g
        /\ {"ub_lock", "ub_body"} \cap Frames(task[t2]) # {}

\* C3: when update_balance succeeds, every tier of the stored balance is the
\* previously stored tier plus the requested delta, and exactly one ledger row
\* is appended whose old_balance is the formatted previous balance and whose
\* new_balance is the formatted new balance.
C3_UpdateEffect ==
    [][\A t \in Tasks :
          UpdateSucceeds(t) =>
              LET g == task[t].g
                  d == task[t].d
              IN  /\ g \in DOMAIN users
                  /\ users'[g].wl = users[g].wl + d[1]
                  /\ users'[g].dl = users[g].dl + d[2]
                  /\ users'[g].bgl = users[g].bgl + d[3]
                  /\ \A k \in DOMAIN users : k # g => users'[k] = users[k]
                  /\ transactions' =
                         Append(transactions,
                                [growid |-> g, type |-> task[t].kind,
                                 old_balance |-> format(users[g]),
                                 new_balance |-> format(users'[g])])]_vars

\* a second update of an account has succeeded, its balance read from the
\* cache entry the first one left
C3_Witness ==
    \E t \in Tasks :
        /\ Returned(t)
        /\ task[t].op = "update_balance"
        /\ task[t].res.ok
        /\ Len(transactions) = 2
        /\ task[t].cur # ZeroBalance
        /\ users[task[t].g] # task[t].cur

\* C4 as stated: an update_balance whose negative delta exceeds the current
\* value of its tier fails with InsufficientBalance and leaves the stored
\* balance and the ledger unchanged.
C4_Original ==
    [][\A t \in Tasks :
          (UpdateBodyStep(t) /\ task[t].res.ok
             /\ ExceedsTier(task[t].d, users[task[t].g]))
          => /\ task'[t].res.err = INSUFFICIENT_BALANCE
             /\ UNCHANGED <<users, transactions>>]_vars

\* C4 as the code has it: such an update_balance never succeeds and leaves
\* the stored balance and the ledger unchanged; it fails with
\* InsufficientBalance, except that it fails with InvalidAmount when the
\* balance with the overdrawn tier clamped to zero is out of range.
C4_OverdrawRefused ==
    [][\A t \in Tasks :
          (UpdateBodyStep(t) /\ task[t].res.ok
             /\ ExceedsTier(task[t].d, users[task[t].g]))
          => LET clamped == Balance(users[task[t].g].wl + task[t].d[1],
                                    users[task[t].g].dl + task[t].d[2],
                                    users[task[t].g].bgl + task[t].d[3])
             IN  /\ ~task'[t].res.ok
                 /\ task'[t].res.err =
                        IF total_wl(clamped) <= 1000000
                        THEN INSUFFICIENT_BALANCE ELSE INVALID_AMOUNT
                 /\ UNCHANGED <<users, transactions>>]_vars

\* an update_balance that takes more WL than the account holds has been
\* refused with InsufficientBalance
C4_Witness ==
    \E t \in Tasks :
        /\ Returned(t)
        /\ task[t].op = "update_balance"
        /\ task[t].res.err = INSUFFICIENT_BALANCE
        /\ task[t].g \in DOMAIN users
        /\ ExceedsTier(task[t].d, users[task[t].g])

\* C5: a store transaction inside update_balance that fails at the UPDATE,
\* at the INSERT or at the commit is rolled back and answered with the
\* transaction error: no tier value has changed and no ledger row is new.
\* In every step, the balance of an account changes if and only if the step
\* appends a ledger row of that account recording the change.
C5_TransactionAtomic ==
    [][/\ \A t \in Tasks :
             UpdateBodyStep(t) =>
                 /\ task'[t].res.ok
                        <=> (LedgerGrew /\ Last(transactions').growid = task[t].g)
                 /\ ~task'[t].res.ok => UNCHANGED <<users, transactions>>
                 /\ (/\ task[t].res.ok
                     /\ ~task'[t].res.ok
                     /\ ~ExceedsTier(task[t].d, users[task[t].g])
                     /\ total_wl(NewBalance(users[task[t].g], task[t].d)) <= 1000000)
                    => task'[t].res.err = STORE_ERROR
       /\ \A g \in DOMAIN users :
             (users'[g] # users[g])
                 <=> /\ LedgerGrew
                     /\ Last(transactions').growid = g
                     /\ Last(transactions').old_balance = format(users[g])
                     /\ Last(transactions').new_balance = format(users'[g])]_vars

\* an update_balance whose transaction failed has returned the transaction
\* error, on an account that already has a committed ledger row
C5_Witness ==
    \E t \in Tasks :
        /\ Returned(t)
        /\ task[t].op = "update_balance"
        /\ task[t].res.err = STORE_ERROR
        /\ Len(transactions) = 1
        /\ transactions[1].growid = task[t].g

\* C6: right after update_balance succeeds, get_balance for the same account
\* returns the new balance, also when the cache still holds an entry for it.
C6_NoStaleRead ==
    [][\A t \in Tasks :
          UpdateSucceeds(t) =>
              /\ GetBalanceNow(task[t].g)' = users'[task[t].g]
              /\ task'[t].res.data = users'[task[t].g]]_vars

\* update_balance has changed a balance it had read from the cache, and the
\* cache entry now holds the new balance
C6_Witness ==
    \E t \in Tasks :
        /\ Returned(t)
        /\ task[t].op = "update_balance"
        /\ task[t].res.ok
        /\ task[t].res.data # task[t].cur
        /\ Len(transactions) = 2
        /\ CacheHit(memory_cache, Key("balance", task[t].g))
        /\ memory_cache[Key("balance", task[t].g)] = task[t].res.data

\* C8 as stated: process_purchase with quantity >= 1 by a registered buyer,
\* for an existing product with at least that many AVAILABLE units and a
\* total price within the buyer's balance, succeeds (unless it could not
\* take a lock or did not find the buyer registered).
C8_PurchaseSucceeds ==
    \A t \in Tasks :
        (/\ Returned(t)
         /\ task[t].op = "process_purchase"
         /\ task[t].q >= 1
         /\ task[t].h \in DOMAIN user_growid
         /\ user_growid[task[t].h] \in DOMAIN users
         /\ task[t].code \in DOMAIN products
         /\ Available(task[t].code) >= task[t].q
         /\ products[task[t].code].price * task[t].q
                <= users[user_growid[task[t].h]].wl
         /\ task[t].res.err \notin {LOCK_ACQUISITION_FAILED, NOT_REGISTERED})
        => task[t].res.ok

\* C9 as stated: process_purchase by a registered buyer with a quantity larger
\* than the number of AVAILABLE units of the product fails with
\* InsufficientStock (unless it could not take a lock or did not find the
\* buyer registered).
C9_InsufficientStock ==
    \A t \in Tasks :
        (/\ Returned(t)
         /\ task[t].op = "process_purchase"
         /\ task[t].h \in DOMAIN user_growid
         /\ task[t].code \in DOMAIN products
         /\ task[t].q > Available(task[t].code)
         /\ task[t].res.err \notin {LOCK_ACQUISITION_FAILED, NOT_REGISTERED})
        => task[t].res.err = INSUFFICIENT_STOCK

\* the responses that report a validation failure
ValidationFailures ==
    {INVALID_AMOUNT, INSUFFICIENT_BALANCE, INSUFFICIENT_STOCK, INVALID_GROWID,
     NOT_REGISTERED}

\* C10: a register_user, update_balance, process_deposit, process_withdrawal
\* or process_purchase call that returns a validation failure has changed no
\* store table, and the step that produces a validation failure changes none.
C10_ValidationBeforeWrite ==
    [][\A t \in Tasks :
          (/\ task'[t] # task[t]
           /\ task'[t].op # ""
           /\ task'[t].res.err \in ValidationFailures)
          => /\ ~task'[t].wrote
             /\ UNCHANGED store]_vars

\* a deposit into an account standing at the upper limit got as far as
\* update_balance and has been refused with InvalidAmount
C10_Witness ==
    \E t \in Tasks :
        /\ Returned(t)
        /\ task[t].op = "process_deposit"
        /\ task[t].res.err = INVALID_AMOUNT
        /\ task[t].g \in DOMAIN users
        /\ total_wl(users[task[t].g]) = 1000000
        /\ ~task[t].wrote

\* this step is task t leaving the body of register_user
RegisterBodyStep(t) ==
    /\ task[t].stack # << >>
    /\ Head(task[t].stack) = "ru_body"
    /\ task'[t] # task[t]

\* C11 as stated: register_user(handle, name) for a handle that is linked to
\* a different name fails and leaves the link of the handle as it was.
C11_AlreadyLinked ==
    [][\A t \in Tasks :
          (/\ RegisterBodyStep(t)
           /\ task[t].h \in DOMAIN user_growid
           /\ user_growid[task[t].h] # task[t].g)
          => /\ ~task'[t].res.ok
             /\ user_growid' = user_growid]_vars

\* C12: register_user called again with the arguments of the existing link
\* succeeds and changes nothing in the store: the handle keeps exactly one
\* link row, and the balance of the account is not reset.
C12_Idempotent ==
    [][\A t \in Tasks :
          (/\ RegisterBodyStep(t)
           /\ task[t].h \in DOMAIN user_growid
           /\ user_growid[task[t].h] = task[t].g)
          => /\ task'[t].res.ok
             /\ UNCHANGED store
             /\ task[t].g \in DOMAIN users
             /\ users'[task[t].g] = users[task[t].g]
             /\ Cardinality({h \in DOMAIN user_growid' :
                                 user_growid'[h] = task[t].g}) = 1]_vars

\* a repeated register_user has succeeded without a write, on an account
\* that holds a balance
C12_Witness ==
    \E t \in Tasks :
        /\ Returned(t)
        /\ task[t].op = "register_user"
        /\ task[t].res.ok
        /\ ~task[t].wrote
        /\ task[t].h \in DOMAIN user_growid
        /\ user_growid[task[t].h] = task[t].g
        /\ users[task[t].g] # ZeroBalance

\* C13: after any sequence of register_user calls the identity links are
\* one-to-one: a handle has at most one name and no name is linked to two
\* handles.
C13_LinksBijective ==
    \A h1 \in DOMAIN user_growid, h2 \in DOMAIN user_growid :
        (user_growid[h1] = user_growid[h2]) => (h1 = h2)

\* a register_user has linked its handle to a name that another handle had
\* registered before (the cache entry of that handle still shows it), and
\* the other handle has lost its link
C13_Witness ==
    \E t \in Tasks, h \in IdentityHandles :
        /\ Returned(t)
        /\ task[t].op = "register_user"
        /\ task[t].res.ok
        /\ task[t].wrote
        /\ h # task[t].h
        /\ CacheHit(memory_cache, Key("growid", h))
        /\ memory_cache[Key("growid", h)] = task[t].g
        /\ h \notin DOMAIN user_growid
        /\ user_growid[task[t].h] = task[t].g

\* C14 as stated: every key lock is released on every exit path of the
\* operation that took it, so a task that is not inside an operation holds
\* no lock.
C14_LocksReleased ==
    \A key \in DOMAIN locks : task[locks[key]].stack # << >>

\* this step is task t giving up on a lock another task holds
TimeoutStep(t) ==
    /\ task[t].stack # << >>
    /\ Head(task[t].stack) \in LockLabels
    /\ Held(locks, LockKey(task[t]))
    /\ task'[t] # task[t]

\* C15 as stated: an operation whose acquire_lock times out reports the
\* lock-acquisition failure to its caller and changes no state.
C15_LockFailureReported ==
    [][\A t \in Tasks :
          TimeoutStep(t) =>
              /\ task'[t].res.err = LOCK_ACQUISITION_FAILED
              /\ UNCHANGED <<store, memory_cache>>]_vars

LedgerCount(g) == Len(SelectSeq(transactions, LAMBDA r : r.growid = g))

\* C17: the ledger is append-only, and the number of ledger rows of an account
\* is the number of update_balance calls for it that returned success: every
\* step keeps the rows there are, and the count of an account grows by one in
\* a step that is a successful update_balance of it and by nothing otherwise.
C17_LedgerAppendOnly ==
    [][/\ Len(transactions') >= Len(transactions)
       /\ SubSeq(transactions', 1, Len(transactions)) = transactions
       /\ \A g \in Accounts :
             LedgerCount(g)' =
                 LedgerCount(g)
                     + (IF \E t \in Tasks : UpdateSucceeds(t) /\ task[t].g = g
                        THEN 1 ELSE 0)]_vars

\* the ledger holds one row of an account, and a second update_balance of it
\* has failed in its store transaction: two calls, one success, one row
C17_Witness ==
    \E t \in Tasks :
        /\ Returned(t)
        /\ task[t].op = "update_balance"
        /\ ~task[t].res.ok
        /\ task[t].res.err = STORE_ERROR
        /\ LedgerCount(task[t].g) = 1
        /\ task[t].cur # ZeroBalance

\* the responses a deposit or withdrawal gives before it has looked at the
\* amounts: it could not take a lock, or the handle is not registered
NotStarted == {LOCK_ACQUISITION_FAILED, NOT_REGISTERED}

\* C18: process_deposit with a negative component, or with a total of zero
\* for a registered handle, fails with InvalidAmount and changes no balance;
\* otherwise it calls update_balance with the amounts as positive deltas and
\* kind deposit; and when it succeeds the total of the account has grown by
\* exactly wl + 100*dl + 10000*bgl and one deposit row was appended.
C18_Deposit ==
    [][\A t \in Tasks :
          (task'[t] # task[t] /\ task'[t].op = "process_deposit")
          => LET amt == task'[t].amt
                 g == task'[t].g
             IN  /\ (HasNegative(amt) \/ AmountTotal(amt) = 0)
                        => /\ task'[t].stack = << >> => ~task'[t].res.ok
                           /\ (task'[t].stack = << >>
                                  /\ task'[t].res.err \notin NotStarted)
                                  => task'[t].res.err = INVALID_AMOUNT
                           /\ HasNegative(amt) => task'[t].stack = << >>
                           /\ {"ub_lock", "ub_body"} \cap Frames(task'[t]) = {}
                           /\ UNCHANGED <<users, transactions>>
                 /\ ({"ub_lock", "ub_body"} \cap Frames(task'[t]) # {})
                        => /\ task'[t].d = amt
                           /\ task'[t].kind = DEPOSIT
                           /\ amt[1] >= 0 /\ amt[2] >= 0 /\ amt[3] >= 0
                           /\ AmountTotal(amt) > 0
                 /\ (task'[t].stack = << >> /\ task'[t].res.ok)
                        => /\ g \in DOMAIN users
                           /\ total_wl(users'[g]) = total_wl(users[g]) + AmountTotal(amt)
                           /\ LedgerGrew
                           /\ Last(transactions').growid = g
                           /\ Last(transactions').type = DEPOSIT]_vars

\* a deposit of 150 WL on a zero balance has succeeded and the total is 150
C18_Witness ==
    \E t \in Tasks :
        /\ Returned(t)
        /\ task[t].op = "process_deposit"
        /\ task[t].res.ok
        /\ task[t].amt = <<150, 0, 0>>
        /\ task[t].cur = ZeroBalance
        /\ total_wl(users[task[t].g]) = 150

\* C19: a process_withdrawal whose total is larger than the total of the
\* stored balance is refused in its own check, before update_balance is
\* called: it answers InsufficientBalance (unless a lock could not be taken)
\* and the balance and the ledger stay as they are.
C19_WithdrawalPrecheck ==
    [][\A t \in Tasks :
          (/\ task'[t] # task[t]
           /\ task[t].op = "process_withdrawal"
           /\ task'[t].op = "process_withdrawal"
           /\ task[t].kind = ""
           /\ task[t].h \in DOMAIN user_growid
           /\ AmountTotal(task[t].amt) > total_wl(users[user_growid[task[t].h]]))
          => /\ task'[t].kind = ""
             /\ {"ub_lock", "ub_body"} \cap Frames(task'[t]) = {}
             /\ task'[t].stack = << >>
                    => task'[t].res.err \in {INSUFFICIENT_BALANCE, LOCK_ACQUISITION_FAILED}
             /\ UNCHANGED <<users, transactions>>]_vars

\* a withdrawal of 150 WL from an account that holds 1 DL (100 WL in total)
\* has been refused with InsufficientBalance without calling update_balance
C19_Witness ==
    \E t \in Tasks :
        /\ Returned(t)
        /\ task[t].op = "process_withdrawal"
        /\ task[t].res.err = INSUFFICIENT_BALANCE
        /\ task[t].kind = ""
        /\ task[t].amt = <<150, 0, 0>>
        /\ total_wl(users[task[t].g]) = 100
        /\ Len(transactions) = 1

\* C20 as stated: get_transaction_history(growid, limit) returns the ledger
\* rows of the account most recent first, min(limit, number of rows) of them,
\* also when the cache holds a page shorter than the limit.
C20_HistoryPage ==
    \A t \in Tasks :
        (/\ Returned(t)
         /\ task[t].op = "get_transaction_history"
         /\ LedgerCount(task[t].g) > 0)
        => /\ task[t].res.ok
           /\ Len(task[t].res.data) =
                  (IF task[t].limit < LedgerCount(task[t].g)
                   THEN task[t].limit ELSE LedgerCount(task[t].g))
           /\ \A i \in 1..Len(task[t].res.data) :
                  task[t].res.data[i] =
                      SelectTransactions(transactions, task[t].g)[i]

\* C30: for the total n of every valid balance b (0 <= n <= 1,000,000),
\* Balance.from_wl(n) has the total n, with bgl = n div 10000,
\* dl = (n mod 10000) div 100 and wl = n mod 100; hence
\* b.total_wl() == Balance.from_wl(b.total_wl()).total_wl().
C30_FromWlRoundTrip ==
    \A t \in Tasks :
        (Returned(t) /\ task[t].op = "from_wl")
        => LET n == task[t].cur.wl + 100 * task[t].cur.dl + 10000 * task[t].cur.bgl
               f == task[t].res.data
           IN  /\ 0 <= n /\ n <= 1000000
               /\ f.wl + 100 * f.dl + 10000 * f.bgl = n
               /\ f.bgl = n \div 10000
               /\ f.dl = (n - 10000 * f.bgl) \div 100
               /\ f.wl = n - 10000 * f.bgl - 100 * f.dl
               /\ f.wl < 100 /\ f.dl < 100

\* from_wl has been applied to a balance whose tiers are not the canonical
\* ones of its total: 150 WL, 99 DL and 1 BGL come back as 50 WL, 0 DL, 2 BGL
C30_Witness ==
    \E t \in Tasks :
        /\ Returned(t)
        /\ task[t].op = "from_wl"
        /\ task[t].cur = [wl |-> 150, dl |-> 99, bgl |-> 1]
        /\ task[t].res.data = [wl |-> 50, dl |-> 0, bgl |-> 2]

\* the operations of the transaction manager that move value
ProcessOps == {"process_deposit", "process_withdrawal", "process_purchase"}

\* this step is task t calling update_balance
EntersUpdate(t) ==
    /\ task'[t].stack # << >>
    /\ Head(task'[t].stack) = "ub_lock"
    /\ task'[t] # task[t]

\* C27: nothing is retried.  One invocation of process_deposit,
\* process_withdrawal or process_purchase calls update_balance at most once
\* (it calls it only while it has called it never, and when update_balance
\* returns, with success or failure, the invocation returns), and it writes
\* at most one ledger row.
C27_NoRetry ==
    [][\A t \in Tasks :
          (task[t].op \in ProcessOps /\ task'[t] # task[t])
          => /\ EntersUpdate(t) => task[t].kind = "" /\ ~task[t].wrote
             /\ UpdateBodyStep(t) => task'[t].stack = << >>
             /\ Len(transactions') <= Len(transactions) + 1
             /\ Len(transactions') > Len(transactions) => ~task[t].wrote]_vars

\* a deposit whose update_balance failed in the store has returned the
\* failure, and the ledger has no row: one call, no second attempt
C27_Witness ==
    \E t \in Tasks :
        /\ Returned(t)
        /\ task[t].op = "process_deposit"
        /\ task[t].kind = DEPOSIT
        /\ ~task[t].res.ok
        /\ task[t].res.err = STORE_ERROR
        /\ ~task[t].wrote
        /\ transactions = << >>

\* where an invocation of process_purchase stands
PurchasePhase(tk) ==
    IF tk.op # "process_purchase" THEN "None"
    ELSE IF tk.stack = << >> THEN (IF tk.res.ok THEN "Completed" ELSE "Failed")
    ELSE IF Head(tk.stack) = "pp_lock" THEN "Started"
    ELSE IF {"ub_lock", "ub_body"} \cap Frames(tk) # {} THEN "Committing"
    ELSE IF {"us_lock", "us_body"} \cap Frames(tk) # {} THEN "Reserving"
    ELSE "Validating"

\* the phases that may follow a phase in one step of the invocation
PhaseSuccessors(phase) ==
    CASE phase = "None" -> {"Started", "Failed"}
      [] phase = "Started" -> {"Validating", "Failed"}
      [] phase = "Validating" -> {"Validating", "Reserving", "Failed"}
      [] phase = "Reserving" -> {"Reserving", "Committing", "Failed"}
      [] phase = "Committing" -> {"Committing", "Completed", "Failed"}
      [] OTHER -> {"None"}

\* the buyer is registered, the product exists, it has enough AVAILABLE units
\* and the buyer's balance covers the total price
PurchaseValidated(tk) ==
    /\ tk.h \in DOMAIN user_growid
    /\ user_growid[tk.h] \in DOMAIN users
    /\ tk.code \in DOMAIN products
    /\ Available(tk.code) >= tk.q
    /\ products[tk.code].price * tk.q <= total_wl(users[user_growid[tk.h]])

\* the units of the product that are SOLD to the buyer
SoldTo(tk) ==
    {i \in DOMAIN stock : /\ stock[i].product_code = tk.code
                          /\ stock[i].status = SOLD
                          /\ stock[i].buyer_id = tk.h}

C26_CallbackFailureIsolated ==
    [][\A t \in Tasks :
          /\ UpdateBodyStep(t) /\ task[t].res.ok /\ transactions' # transactions
                => /\ task'[t].res.ok
                   /\ users'[task[t].g] = task'[t].res.data
                   /\ LedgerGrew
                   /\ Range(task'[t].notified)
                          = {"notify_balance_updated", "notify_large_transaction"}
          /\ RegisterBodyStep(t) /\ user_growid' # user_growid
                => /\ task'[t].res.ok
                   /\ user_growid'[task[t].h] = task[t].g
                   /\ task[t].g \in DOMAIN users'
                   /\ Range(task'[t].notified) = {"notify_user_registered"}]_vars

\* an update_balance whose first balance_updated callback raised has returned
\* success, the second callback was invoked, and the balance is stored
C26_Witness ==
    \E t \in Tasks :
        /\ Returned(t)
        /\ task[t].op = "update_balance"
        /\ task[t].failed = {"notify_balance_updated"}
        /\ task[t].notified = <<"notify_balance_updated", "notify_large_transaction">>
        /\ task[t].res.ok
        /\ Len(transactions) = 1
        /\ users[task[t].g] = task[t].res.data
        /\ task[t].res.data # ZeroBalance

\* C29 as stated: the status of a stock unit changes only from AVAILABLE to
\* SOLD, with the buyer set, or from AVAILABLE to DELETED; from SOLD back to
\* AVAILABLE only in a step of the process_purchase that is rolling back.
C29_StatusTransitions ==
    [][\A i \in DOMAIN stock :
          stock'[i].status # stock[i].status
          => \/ /\ stock[i].status = AVAILABLE
                /\ stock'[i].status = SOLD
                /\ stock'[i].buyer_id # ""
             \/ /\ stock[i].status = AVAILABLE
                /\ stock'[i].status = DELETED
             \/ /\ stock[i].status = SOLD
                /\ stock'[i].status = AVAILABLE
                /\ \E t \in Tasks : /\ task[t].op = "process_purchase"
                                     /\ task'[t] # task[t]]_vars

\* no add_stock_item or update_stock_status is under way
NoStockWriterInFlight ==
    \A t \in Tasks :
        task[t].op \in {"add_stock_item", "update_stock_status"}
            => task[t].stack = << >>

\* what get_stock_count and get_available_stock serve from the cache is what
\* the store holds
StockCacheFresh ==
    \A k \in DOMAIN memory_cache :
        /\ k[1] = "stock_count" => memory_cache[k] = CountAvailable(stock, k[2])
        /\ (k[1] = "stock_q" /\ memory_cache[k] # << >>)
              => memory_cache[k] = SelectAvailable(stock, k[2][1], k[2][2])

\* a cached history page starts with the newest ledger rows of the account
HistoryCacheFresh ==
    \A k \in DOMAIN memory_cache :
        k[1] = "trx_history"
            => memory_cache[k]
                   = Slice(SelectTransactions(transactions, k[2]),
                           Len(memory_cache[k]))

\* C21 as stated: every write path has invalidated the cached entries of
\* what it wrote when it returns.  Once update_balance has returned, the
\* cached history shows the new ledger row; once add_stock_item or
\* update_stock_status has returned, get_stock_count and
\* get_available_stock, for every quantity, serve what the store holds.
C21_WritesInvalidate ==
    NoStockWriterInFlight => (StockCacheFresh /\ HistoryCacheFresh)

\* this step is a get, a set, a delete or a clear of the cache manager
CacheStep(t, op) == task[t].op = "" /\ task'[t].op = op

\* C22: get never answers a value whose expiry has passed, from either tier.
\* What it answers is the value of an entry that has not expired; when the
\* key has no unexpired entry in the map or the store, it answers absent
\* and the expired entries of the key are gone from both tiers; and it
\* leaves no expired entry of the key in the map.
C22_NoExpiredValue ==
    [][\A t \in Tasks :
          CacheStep(t, "get")
          => LET key == task'[t].key
                 v == task'[t].value
                 inMemory == /\ key \in DOMAIN memory_cache
                             /\ memory_cache[key].expires_at > 0
                 inStore == /\ key \in DOMAIN cache_table
                            /\ cache_table[key].expires_at > 0
             IN  /\ v # NoValue
                       => \/ inMemory /\ v = memory_cache[key].value
                          \/ inStore /\ v = loads(cache_table[key].value)
                 /\ (~inMemory /\ ~inStore)
                       => /\ v = NoValue
                          /\ key \notin DOMAIN memory_cache'
                          /\ task'[t].res.ok => key \notin DOMAIN cache_table'
                 /\ key \in DOMAIN memory_cache'
                       => memory_cache'[key].expires_at > 0]_vars

\* a get has found the key expired in the map and in the store, answered
\* absent, and neither tier holds the key any more
C22_Witness ==
    \E t \in Tasks :
        /\ Returned(t)
        /\ task[t].op = "get"
        /\ task[t].found = {"memory expired", "store expired"}
        /\ task[t].value = NoValue
        /\ task[t].key \notin DOMAIN memory_cache
        /\ task[t].key \notin DOMAIN cache_table

\* C23: after a delete of a key that answered True the key is in neither
\* tier, after a clear that answered True no key is in either tier, a get
\* of a key that is in neither tier answers absent, and a key that is in
\* neither tier comes back only through a set of it.
C23_DeleteRemoves ==
    [][/\ \A t \in Tasks :
             /\ (CacheStep(t, "delete") /\ task'[t].res.ok)
                   => /\ task'[t].key \notin DOMAIN memory_cache'
                      /\ task'[t].key \notin DOMAIN cache_table'
             /\ (CacheStep(t, "clear") /\ task'[t].res.ok)
                   => memory_cache' = << >> /\ cache_table' = << >>
             /\ (/\ CacheStep(t, "get")
                 /\ task'[t].key \notin DOMAIN memory_cache
                 /\ task'[t].key \notin DOMAIN cache_table)
                   => task'[t].value = NoValue
       /\ \A key \in (DOMAIN memory_cache' \cup DOMAIN cache_table')
                         \ (DOMAIN memory_cache \cup DOMAIN cache_table) :
             \E t \in Tasks : CacheStep(t, "set") /\ task'[t].key = key]_vars

\* a delete has found the key unexpired in the map and in the store and has
\* answered True; the key is in neither tier
C23_Witness ==
    \E t \in Tasks :
        /\ Returned(t)
        /\ task[t].op = "delete"
        /\ task[t].res.ok
        /\ task[t].found = {"memory", "store"}
        /\ task[t].key \notin DOMAIN memory_cache
        /\ task[t].key \notin DOMAIN cache_table

\* C24 as stated: a get that finds the key only in the store, unexpired,
\* answers the value the durable set was given and puts it into the map
\* with the expiry of the row; and a set that is not durable leaves the
\* store as it is.
C24_DurableFallback ==
    [][\A t \in Tasks :
          /\ (/\ CacheStep(t, "get")
              /\ task'[t].res.ok
              /\ task'[t].found = {"store"})
                => LET key == task'[t].key
                   IN  /\ task'[t].value = cache_table[key].original
                       /\ key \in DOMAIN memory_cache'
                       /\ memory_cache'[key].value = cache_table[key].original
                       /\ memory_cache'[key].expires_at
                              = cache_table[key].expires_at
          /\ (CacheStep(t, "set") /\ ~task'[t].permanent)
                => cache_table' = cache_table]_vars

\* this step of task t puts an entry into the map: a set, or a get that
\* takes the entry from the store
InsertStep(t) ==
    \/ CacheStep(t, "set")
    \/ /\ CacheStep(t, "get")
       /\ "store" \in task'[t].found
       /\ "memory" \notin task'[t].found

\* the keys the map holds when the entry of the step has been put into it,
\* and those of them it holds no more when the step is over
Candidates(t) == DOMAIN memory_cache \cup {task'[t].key}
Evicted(t) == Candidates(t) \ DOMAIN memory_cache'

\* C25 as stated: after a set or a get that takes an entry from the store
\* the map holds no more entries than its capacity, and when the capacity
\* is exceeded the entries with the oldest expires_at are evicted, as many
\* as the tenth part of the overflow (the entries above the capacity).
C25_EvictsTenthOfOverflow ==
    [][\A t \in Tasks :
          InsertStep(t)
          => /\ Cardinality(DOMAIN memory_cache') <= MAX_MEMORY_ITEMS
             /\ Cardinality(Candidates(t)) > MAX_MEMORY_ITEMS
                   => Cardinality(Evicted(t))
                          = ((Cardinality(Candidates(t)) - MAX_MEMORY_ITEMS) + 9)
                                \div 10]_vars

\* C25, amended: after a set or a get that takes an entry from the store the
\* map holds no more entries than its capacity; nothing is evicted at or
\* below the capacity; and when the capacity is exceeded, the evicted
\* entries are as many as the tenth part of the capacity, and none of them
\* expires later than an entry that stays.
C25_EvictsTenthOfCapacity ==
    [][\A t \in Tasks :
          InsertStep(t)
          => /\ Cardinality(DOMAIN memory_cache') <= MAX_MEMORY_ITEMS
             /\ Cardinality(Candidates(t)) <= MAX_MEMORY_ITEMS
                   => Evicted(t) = {}
             /\ Cardinality(Candidates(t)) > MAX_MEMORY_ITEMS
                   => /\ Cardinality(Evicted(t)) = MAX_MEMORY_ITEMS \div 10
                      /\ \A a \in Evicted(t) \ {task'[t].key},
                            b \in DOMAIN memory_cache' :
                             memory_cache[a].expires_at
                                 <= memory_cache'[b].expires_at]_vars

\* the set of the last fill key, which finds the map at its capacity, is
\* over: a tenth of the capacity was evicted for the one entry in excess
C25_Witness ==
    \E t \in Tasks :
        /\ Returned(t)
        /\ task[t].op = "set"
        /\ task[t].key = Key("k", MAX_MEMORY_ITEMS + 2)
        /\ Cardinality(DOMAIN memory_cache)
               = (MAX_MEMORY_ITEMS + 1) - (MAX_MEMORY_ITEMS \div 10)
        /\ MAX_MEMORY_ITEMS \div 10 > 1

\* C37 as stated: every stock unit whose status is AVAILABLE has no buyer
\* reference, whichever call of update_stock_status made it AVAILABLE (the
\* compensating rollback of a purchase passes no buyer).
C37_AvailableHasNoBuyer ==
    \A i \in DOMAIN stock :
        stock[i].status = AVAILABLE => stock[i].buyer_id = ""

\* C36 as stated: a register_user by one handle under a name that another
\* handle is linked to leaves the link of that other handle in place and
\* does not link the registering handle to the name (which would give it the
\* balance the account already holds).
C36_OtherLinkKept ==
    [][\A t \in Tasks, h1 \in DOMAIN user_growid :
          (/\ RegisterBodyStep(t)
           /\ h1 # task[t].h
           /\ user_growid[h1] = task[t].g
           /\ task[t].g \in DOMAIN users)
          => /\ h1 \in DOMAIN user_growid'
             /\ user_growid'[h1] = user_growid[h1]
             /\ ~(/\ task[t].h \in DOMAIN user_growid'
                  /\ user_growid'[task[t].h] = task[t].g)]_vars

\* C35 as stated: a process_withdrawal of a positive total that does not
\* exceed the total of the account's balance succeeds, however the balance
\* is split across the tiers (unless a lock could not be taken or the store
\* failed), and a successful one lowers the total by exactly the total asked.
C35_WithdrawalByTotal ==
    \A t \in Tasks :
        (/\ Returned(t)
         /\ task[t].op = "process_withdrawal"
         /\ ~HasNegative(task[t].amt)
         /\ AmountTotal(task[t].amt) > 0
         /\ task[t].h \in DOMAIN user_growid
         /\ user_growid[task[t].h] \in DOMAIN users
         /\ task[t].res.err \notin {LOCK_ACQUISITION_FAILED, STORE_ERROR})
        => IF task[t].res.ok
           THEN total_wl(task[t].res.data)
                    = total_wl(task[t].cur) - AmountTotal(task[t].amt)
           ELSE AmountTotal(task[t].amt)
                    > total_wl(users[user_growid[task[t].h]])

\* the ledger rows of account g, oldest first
LedgerOf(g) == SelectSeq(transactions, LAMBDA r : r.growid = g)

\* C34: for each account, the old_balance of every ledger row is the
\* new_balance of the account's previous row (the zero balance for its first
\* row) and the new_balance of its newest row is the stored balance; and the
\* current balance update_balance works from, read through the cache, is the
\* balance in the store.
C34_LedgerChain ==
    /\ \A g \in Accounts :
           LET rows == LedgerOf(g)
           IN  /\ \A i \in 1..Len(rows) :
                      rows[i].old_balance =
                          IF i = 1 THEN format(ZeroBalance)
                          ELSE rows[i - 1].new_balance
               /\ rows # << >> =>
                      /\ g \in DOMAIN users
                      /\ rows[Len(rows)].new_balance = format(users[g])
    /\ \A t \in Tasks :
           (/\ task[t].stack # << >>
            /\ Head(task[t].stack) = "ub_body"
            /\ task[t].res.ok)
           => /\ task[t].g \in DOMAIN users
              /\ task[t].res.data = users[task[t].g]

\* a withdrawal has written the second ledger row of an account: the row
\* starts where the first row ended and ends at the stored balance, which
\* the cache entry of the account holds as well
C34_Witness ==
    \E t \in Tasks :
        /\ Returned(t)
        /\ task[t].op = "process_withdrawal"
        /\ task[t].res.ok
        /\ Len(LedgerOf(task[t].g)) = 2
        /\ LedgerOf(task[t].g)[2].type = WITHDRAWAL
        /\ LedgerOf(task[t].g)[2].old_balance = LedgerOf(task[t].g)[1].new_balance
        /\ LedgerOf(task[t].g)[2].old_balance # format(ZeroBalance)
        /\ LedgerOf(task[t].g)[2].new_balance = format(users[task[t].g])
        /\ CacheHit(memory_cache, Key("balance", task[t].g))

\* C33: under every interleaving of get_balance and update_balance on an
\* account, a balance_<account> cache entry that has not expired holds the
\* stored balance, in every state and so once all operations have returned;
\* no get_balance leaves the balance of before a commit in the cache.
C33_BalanceCacheCoherent ==
    \A g \in Accounts :
        CacheHit(memory_cache, Key("balance", g))
        => /\ g \in DOMAIN users
           /\ memory_cache[Key("balance", g)] = users[g]

\* a get_balance that missed the cache is waiting for the lock balance_<g>
\* while an update_balance of the same account has committed a new balance
\* and set the cache entry
C33_Witness ==
    \E t1 \in Tasks, t2 \in Tasks :
        /\ task[t1].op = "get_balance"
        /\ task[t1].stack = <<"gb_lock">>
        /\ Returned(t2)
        /\ task[t2].op = "update_balance"
        /\ task[t2].g = task[t1].g
        /\ task[t2].res.ok
        /\ task[t2].res.data # task[t2].cur
        /\ users[task[t2].g] = task[t2].res.data
        /\ memory_cache[Key("balance", task[t2].g)] = task[t2].res.data

\* C38 as stated: a get that answers a value answers the value of the most
\* recent set of the key that no delete or clear has followed (as it is, or
\* as it comes back from its JSON text), never a value that a later set has
\* overwritten.
C38_GetAnswersLatestSet ==
    \A t \in Tasks :
        (/\ Returned(t)
         /\ task[t].op = "get"
         /\ task[t].value # NoValue)
        => /\ task[t].key \in DOMAIN latest
           /\ task[t].value \in {latest[task[t].key],
                                 loads(dumps(latest[task[t].key]))}

\* the callbacks inside their try block for interaction id
Holders(id) == {c \in Callbacks : callback[c].pc = "held" /\ callback[c].id = id}

\* C40 as stated: at most one callback at a time is inside its try block for
\* an interaction id, also when _cleanup_locks clears the table while a lock
\* is held; and _release_interaction_lock unlocks no Lock but the one that
\* the releasing callback acquired.
C40_InteractionMutex ==
    [][/\ \A id \in InteractionIds : Cardinality(Holders(id)') <= 1
       /\ \A c \in Callbacks, o \in DOMAIN asyncio_locks :
              (/\ callback[c].pc = "held"
               /\ callback'[c].pc = "idle"
               /\ asyncio_locks[o]
               /\ o \in DOMAIN asyncio_locks' => ~asyncio_locks'[o])
              => o = callback[c].lock]_vars

\* task a is suspended in acquire_lock on a key that task b holds
Waits(a, b) ==
    /\ task[a].stack # << >>
    /\ Head(task[a].stack) \in LockLabels
    /\ Held(locks, LockKey(task[a]))
    /\ locks[LockKey(task[a])] = b

\* the keys task t holds
HeldBy(t) == {key \in DOMAIN locks : locks[key] = t}

RECURSIVE PurchaseDebits(_, _)
PurchaseDebits(rows, g) ==
    IF rows = << >> THEN 0
    ELSE LET r == Head(rows)
             rest == PurchaseDebits(Tail(rows), g)
         IN  IF r.growid = g /\ r.type = PURCHASE
             THEN rest + total_wl(unformat(r.old_balance))
                       - total_wl(unformat(r.new_balance))
             ELSE rest

\* the price of the units that are SOLD to a buyer linked to account g
RECURSIVE PriceOf(_)
PriceOf(units) ==
    IF units = {} THEN 0
    ELSE LET i == CHOOSE u \in units : TRUE
         IN  products[stock[i].product_code].price + PriceOf(units \ {i})

SoldValue(g) ==
    PriceOf({i \in DOMAIN stock :
                 /\ stock[i].status = SOLD
                 /\ stock[i].buyer_id \in DOMAIN user_growid
                 /\ user_growid[stock[i].buyer_id] = g
                 /\ stock[i].product_code \in DOMAIN products})

============================================================================
